---- MODULE Spec2Model ----
(***************************************************************************)
(* Model of the audio engine of eq-lab-site (src/lib/audioEngine.ts, the   *)
(* first module text of the file, lines 1-390): the playback controller    *)
(* (playBuffer, playStream, immediateStop, stop, seekTo), the filter graph *)
(* mutators and the EQ matcher calculateMatchedGains.                      *)
(*                                                                         *)
(* Time is counted in ticks of the clock shared by audioContext.currentTime*)
(* and the timer queue.  Levels (volume, dry, wet) are in percent, gains   *)
(* in dB.  JavaScript array indices are 0-based; the model's sequences are *)
(* 1-based, so model index i stands for JavaScript index i-1.              *)
(***************************************************************************)
EXTENDS Integers, Sequences, FiniteSets, TLC

\* ------------------------------------------------------------------ bounds
NumBands == 2      \* number of entries of EQ_FREQUENCIES kept by the model
MaxClock == 2      \* last tick of the clock
MaxFade == 1       \* longest fadeTime passed to stop, in ticks
MaxNodes == 2      \* buffer source nodes alive at once (held or with a queued event)
MaxOffset == 1     \* largest startAt / seek time, in ticks
MaxLen == 3        \* longest spectrum profile handed to calculateMatchedGains
MaxCalls == 2      \* calls of initContext that await audioContext.resume() at once
MaxHandlers == 2   \* distinct handlers the page registers for a callback
MaxTracks == 2     \* tracks added to the library

GainLimit == 12    \* the +/- 12 dB limit of a band gain

NULL == 0

Buffers == {"A", "B"}
Urls == {"U"}

\* AudioBuffer.duration of the two decoded buffers, in ticks
Duration(b) == IF b = "A" THEN 1 ELSE 2

Offsets == -1 .. MaxOffset
FadeTimes == 0 .. MaxFade
GainInputs == {-20, -12, 0, 5, 12, 20}
LevelInputs == {30}

\* The FX parameters handed to play/seek (volume, eq, rd, rw): the defaults
\* with a flat eq, and a preset whose eq array is longer than the graph has
\* bands and holds a gain above +12 dB.
ParamSets ==
  { [volume |-> 50, eq |-> [i \in 1 .. NumBands |-> 0], rd |-> 100, rw |-> 20],
    [volume |-> 80, eq |-> [i \in 1 .. NumBands + 1 |-> IF i = 1 THEN 15 ELSE 3],
     rd |-> 70, rw |-> 50] }

VARIABLES
  audioContext,       \* "null", or the state of the AudioContext: "suspended" | "running"
  callbacks,          \* the handlers held in onPlaybackChange, onSeekTo, onTrackEnd
  mediaSession,       \* navigator.mediaSession: its metadata and action handlers
  graphBuilds,        \* number of times the nodes of the filter graph were created
  resuming,           \* number of initContext calls awaiting audioContext.resume()
  source,             \* id of the AudioBufferSourceNode held, or NULL
  nodes,              \* the buffer source nodes that still exist: id -> node
  filters,            \* gain target (dB) of each BiquadFilterNode
  mainGain,           \* gain target of mainGainNode
  reverbDry,          \* gain target of reverbDryGain
  reverbWet,          \* gain target of reverbWetGain
  echo,               \* targets of echoDelayNode, echoFeedbackGain, echoWetGain, echoDryGain
  mediaElement,       \* the streaming HTMLAudioElement
  currentBuffer,      \* "none" or the buffer of the session
  startTime,
  offsetTime,
  isPlayingInternal,
  stopTimeout,        \* id of the timer held, or NULL
  playbackMode,       \* "buffer" | "stream" | "none"
  timers,             \* the pending timers of the event loop
  clock,              \* audioContext.currentTime
  trace,              \* the last operation and the outbound callbacks it invoked
  match,              \* arguments and result of the last calculateMatchedGains
  load,               \* the last call of loadAudio: its argument and how it settled
  library,            \* the tracks of the page, in the order they were added
  analysis,           \* the run of handleMatch and the call of getSpectrum it awaits
  presetStore,        \* the presets of the page, their database and the debounced write
  player              \* the player page: its tracks, its controls and its pending selections

engineVars ==
  <<audioContext, callbacks, mediaSession, graphBuilds, resuming, source, nodes, filters, mainGain, reverbDry, reverbWet,
    echo, mediaElement, currentBuffer, startTime, offsetTime, isPlayingInternal,
    stopTimeout, playbackMode, timers>>

\* the state of the page: the spectra under comparison, the last call of the
\* loader, the tracks of the library and the run of handleMatch
pageVars == <<match, load, library, analysis, presetStore, player>>

vars == <<engineVars, clock, trace, pageVars>>

\* What the graph is set to at the moment a new source is started
\* (source.start or mediaElement.play): the targets of the parameters and the
\* number of sources of earlier sessions that still play.
NoStart == [started |-> FALSE, mainGain |-> NULL, filters |-> <<>>,
            reverbDry |-> NULL, reverbWet |-> NULL, others |-> 0]

AtStart(e) ==
  [started |-> TRUE, mainGain |-> e.mainGain, filters |-> e.filters,
   reverbDry |-> e.reverbDry, reverbWet |-> e.reverbWet,
   others |-> Cardinality({id \in DOMAIN e.nodes : e.nodes[id].state = "playing"})
              + (IF e.mediaElement.state \in {"loading", "playing"} THEN 1 ELSE 0)]

\* The three outbound callbacks; NULL stands for null (and, in an argument
\* of setAudioEngineCallbacks, for a handler that is not given).
NoCallbacks == [onPlaybackChange |-> NULL, onSeekTo |-> NULL, onTrackEnd |-> NULL]

\* The actions of the control surface, and the media session before any
\* metadata was set.
MediaActions == {"play", "pause", "seekto", "seekbackward", "seekforward"}
NoMediaSession == [metadata |-> "none", handlers |-> {}]

\* The engine's module-level state as one value, so that the functions of
\* the module compose the way their calls do.
Eng ==
  [ audioContext |-> audioContext, callbacks |-> callbacks,
    mediaSession |-> mediaSession, graphBuilds |-> graphBuilds, resuming |-> resuming, source |-> source,
    nodes |-> nodes, filters |-> filters, mainGain |-> mainGain,
    reverbDry |-> reverbDry, reverbWet |-> reverbWet, echo |-> echo,
    mediaElement |-> mediaElement,
    currentBuffer |-> currentBuffer, startTime |-> startTime,
    offsetTime |-> offsetTime, isPlayingInternal |-> isPlayingInternal,
    stopTimeout |-> stopTimeout, playbackMode |-> playbackMode,
    timers |-> timers, calls |-> <<>>, threw |-> FALSE, atStart |-> NoStart,
    delivered |-> <<>> ]

\* The HTMLAudioElement: "null" before initContext creates it; "empty" with
\* no source loaded; "loading" while the promise of play() is pending;
\* "playing"; "ended" once the stream ran out; "failed" when play() was
\* rejected.
NoElement == [src |-> "", state |-> "null", startAt |-> 0, currentTime |-> 0,
              endedQueued |-> FALSE]
EmptyElement == [NoElement EXCEPT !.state = "empty"]

\* The echo section: all null before initContext; a new DelayNode has
\* delayTime 0 and a new GainNode has gain 1 (100 percent).
NoEcho == [delay |-> NULL, feedback |-> NULL, wet |-> NULL, dry |-> NULL]
NewEcho == [delay |-> 0, feedback |-> 100, wet |-> 100, dry |-> 100]

\* mediaElement.duration || 0: NaN until the metadata of the stream is
\* loaded, then the length of the stream
StreamLength(url) == IF url = "U" THEN 2 ELSE 0
MediaDuration(m) == IF m.state \in {"playing", "ended"} THEN StreamLength(m.src) ELSE 0

\* ------------------------------------------------------------ EQ matcher
\* JavaScript numbers: a finite number is counted in units of 1/Scale dB, so
\* that the mean of up to MaxLen whole dB values is exact; NaN and the two
\* infinities are values of their own.
RECURSIVE Factorial(_)
Factorial(n) == IF n <= 1 THEN 1 ELSE n * Factorial(n - 1)
Scale == Factorial(MaxLen + 1)

Fin(v) == [k |-> "fin", v |-> v]
Db(d) == Fin(d * Scale)
NaN == [k |-> "nan", v |-> 0]
PosInf == [k |-> "inf", v |-> 1]
NegInf == [k |-> "inf", v |-> -1]

\* whole dB value of a finite number
DbOf(a) == a.v \div Scale

isFinite(a) == a.k = "fin"

Neg(a) == [a EXCEPT !.v = -@]

Add(a, b) ==
  IF a.k = "nan" \/ b.k = "nan" THEN NaN
  ELSE IF a.k = "inf" /\ b.k = "inf" THEN (IF a.v = b.v THEN a ELSE NaN)
  ELSE IF a.k = "inf" THEN a
  ELSE IF b.k = "inf" THEN b
  ELSE Fin(a.v + b.v)

Sub(a, b) == Add(a, Neg(b))

\* a / n for an array length n
Div(a, n) ==
  IF a.k = "nan" THEN NaN
  ELSE IF a.k = "inf" THEN a
  ELSE IF n = 0 THEN (IF a.v = 0 THEN NaN ELSE IF a.v > 0 THEN PosInf ELSE NegInf)
  ELSE Fin(a.v \div n)

Less(a, b) ==
  IF a.k = "inf" THEN a.v < 0 /\ b # a
  ELSE IF b.k = "inf" THEN b.v > 0
  ELSE a.v < b.v

MathMin(a, b) == IF a.k = "nan" \/ b.k = "nan" THEN NaN ELSE IF Less(b, a) THEN b ELSE a
MathMax(a, b) == IF a.k = "nan" \/ b.k = "nan" THEN NaN ELSE IF Less(a, b) THEN b ELSE a

\* a[i] of a JavaScript array: undefined outside it, NaN in arithmetic
At(a, i) == IF i \in DOMAIN a THEN a[i] ELSE NaN

\* a.reduce((x, y) => x + y, 0)
RECURSIVE Reduce(_, _)
Reduce(a, n) == IF n = 0 THEN Db(0) ELSE Add(Reduce(a, n - 1), a[n])

\* index bug: every band is compared with the first band of the source
calculateMatchedGains_FirstBand(s, t) ==
  LET diff == [i \in 1 .. Len(t) |-> Sub(t[i], At(s, 1))]
      avg == Div(Reduce(diff, Len(diff)), Len(diff))
  IN  [i \in 1 .. Len(diff) |->
         MathMax(Db(-GainLimit), MathMin(Db(GainLimit), Sub(diff[i], avg)))]

\* the mean is not subtracted
calculateMatchedGains_NoMean(s, t) ==
  LET diff == [i \in 1 .. Len(t) |-> Sub(t[i], At(s, i))]
  IN  [i \in 1 .. Len(diff) |->
         MathMax(Db(-GainLimit), MathMin(Db(GainLimit), diff[i]))]

\* calculateMatchedGains of lines 339-343
calculateMatchedGains(s, t) ==
  LET diff == [i \in 1 .. Len(t) |-> Sub(t[i], At(s, i))]
      avg == Div(Reduce(diff, Len(diff)), Len(diff))
  IN  [i \in 1 .. Len(diff) |->
         MathMax(Db(-GainLimit), MathMin(Db(GainLimit), Sub(diff[i], avg)))]

\* calculateMatchedGains of lines 1162-1179, the older text of the module
calculateMatchedGains2(sourceSpec, targetSpec) ==
  LET d(i) == Sub(At(targetSpec, i), sourceSpec[i])
      diff == [i \in 1 .. Len(sourceSpec) |-> IF isFinite(d(i)) THEN d(i) ELSE Db(0)]
      validDiffs == SelectSeq(diff, LAMBDA x : x.k # "nan")
      avgDiff == IF Len(validDiffs) > 0
                 THEN Div(Reduce(validDiffs, Len(validDiffs)), Len(validDiffs))
                 ELSE Db(0)
      final(i) == IF isFinite(Sub(diff[i], avgDiff)) THEN Sub(diff[i], avgDiff) ELSE Db(0)
  IN  [i \in 1 .. Len(diff) |->
         MathMax(Db(-GainLimit), MathMin(Db(GainLimit), final(i)))]

\* --------------------------------------------------------- graph mutators
\* AudioParam.setTargetAtTime(v, currentTime, tc): the param's target is v
setTargetAtTime(param, v) == v

setEqGain(e, i, db) ==
  IF i \in DOMAIN e.filters /\ e.audioContext # "null"
  THEN [e EXCEPT !.filters[i] = setTargetAtTime(@, db)]
  ELSE e

setReverbDry(e, v) ==
  IF e.audioContext # "null" THEN [e EXCEPT !.reverbDry = setTargetAtTime(@, v)] ELSE e

setReverbWet(e, v) ==
  IF e.audioContext # "null" THEN [e EXCEPT !.reverbWet = setTargetAtTime(@, v)] ELSE e

\* the guard on the graph is missing
setVolume_NoGuard(e, v) == [e EXCEPT !.mainGain = setTargetAtTime(@, v)]

setVolume(e, v) ==
  IF e.audioContext # "null" THEN [e EXCEPT !.mainGain = setTargetAtTime(@, v)] ELSE e

setEchoDelay(e, v) ==
  IF e.echo.delay # NULL /\ e.audioContext # "null"
  THEN [e EXCEPT !.echo.delay = setTargetAtTime(@, v)] ELSE e

setEchoFeedback(e, v) ==
  IF e.echo.feedback # NULL /\ e.audioContext # "null"
  THEN [e EXCEPT !.echo.feedback = setTargetAtTime(@, v)] ELSE e

setEchoWet(e, v) ==
  IF e.echo.wet # NULL /\ e.audioContext # "null"
  THEN [e EXCEPT !.echo.wet = setTargetAtTime(@, v)] ELSE e

setEchoDry(e, v) ==
  IF e.echo.dry # NULL /\ e.audioContext # "null"
  THEN [e EXCEPT !.echo.dry = setTargetAtTime(@, v)] ELSE e

\* eq.forEach((g, i) => setEqGain(i, g)), from entry i on
RECURSIVE ApplyEq(_, _, _)
ApplyEq(e, eq, i) ==
  IF i > Len(eq) THEN e ELSE ApplyEq(setEqGain(e, i, eq[i]), eq, i + 1)

\* setVolume; eq.forEach; setReverbDry; setReverbWet
ApplyParams(e, p) ==
  setReverbWet(setReverbDry(ApplyEq(setVolume(e, p.volume), p.eq, 1), p.rd), p.rw)

\* ------------------------------------------------------------ getSpectrum
\* A buffer is its length in frames, its sample rate and its samples.  A
\* sample is a number of units of 1e-9; the model keeps buffers of one level
\* (every sample has the value `level`).  An index at or past the length
\* reads undefined, which is NaN in the arithmetic that follows.
NanoUnit == 1000000000

Sample(buffer, k) == IF k < buffer.length THEN Fin(buffer.level) ELSE NaN

fftSize(isMobile) == IF isMobile THEN 2048 ELSE 4096
numSamples(isMobile) == IF isMobile THEN 15 ELSE 40
subStep(isMobile) == IF isMobile THEN 32 ELSE 16
AnalyzeSeconds == 30

Min(a, b) == IF a < b THEN a ELSE b
Abs(x) == IF x < 0 THEN -x ELSE x

analyzeLimit(buffer) == Min(buffer.length, buffer.sampleRate * AnalyzeSeconds)

\* the distance of the offsets is rounded up
Step_RoundsUp(buffer, isMobile) ==
  (analyzeLimit(buffer) + numSamples(isMobile) - 1) \div numSamples(isMobile)

\* Math.floor(analyzeLimit / numSamples)
Step(buffer, isMobile) == analyzeLimit(buffer) \div numSamples(isMobile)

\* the loop over j reads on past the end of the data
Addend_NoBreak(buffer, start, j) ==
  [v |-> Sample(buffer, start + j), read |-> start + j]

\* What iteration j of `for (j = 0; j < fftSize; j += subStep) { if (start +
\* j >= data.length) break; real += data[start + j] * cos(angle * j); ... }`
\* adds to `real`: nothing once the loop has left the data (j grows, so the
\* loop has stopped at or before such a j).  The weights are taken at j = 0
\* (cos 1 and sin 0), so that `real` is the sum of the samples read and
\* `imag` is 0.  `read` is the index of the sample read, -1 when none is.
Addend(buffer, start, j) ==
  IF start + j >= buffer.length
  THEN [v |-> Fin(0), read |-> -1]
  ELSE [v |-> Sample(buffer, start + j), read |-> start + j]

Max(a, b) == IF a > b THEN a ELSE b

\* the sum of the iterations lo .. hi - 1 of the loop, added in halves, and
\* the largest index they read
RECURSIVE WindowSum(_, _, _, _, _)
WindowSum(buffer, start, lo, hi, isMobile) ==
  IF hi <= lo THEN [v |-> Fin(0), read |-> -1]
  ELSE IF hi = lo + 1 THEN Addend(buffer, start, lo * subStep(isMobile))
  ELSE CHOOSE sum \in {[v |-> Add(a.v, b.v), read |-> Max(a.read, b.read)] :
                         a \in {WindowSum(buffer, start, lo, (lo + hi) \div 2, isMobile)},
                         b \in {WindowSum(buffer, start, (lo + hi) \div 2, hi, isMobile)}} :
              TRUE

\* number of iterations of the loop over j when it is not left early
Iterations(isMobile) ==
  (fftSize(isMobile) + subStep(isMobile) - 1) \div subStep(isMobile)

\* Math.sqrt(real * real + imag * imag) / (fftSize / subStep), with imag = 0
Magnitude(real, isMobile) ==
  Div(IF isFinite(real) THEN Fin(Abs(real.v)) ELSE IF real.k = "inf" THEN PosInf ELSE NaN,
      fftSize(isMobile) \div subStep(isMobile))

\* number of decimal digits of x > 0
RECURSIVE Digits(_)
Digits(x) == IF x < 10 THEN 1 ELSE 1 + Digits(x \div 10)

\* 20 * Math.log10(mag + 1e-9), with the logarithm rounded down to a whole
\* number: -180 dB for silence, 0 dB for a magnitude of 1
Decibels(mag) ==
  IF mag.k = "nan" THEN NaN
  ELSE IF mag.k = "inf" THEN (IF mag.v > 0 THEN PosInf ELSE NaN)
  ELSE IF mag.v + 1 < 0 THEN NaN
  ELSE IF mag.v + 1 = 0 THEN NegInf
  ELSE Db(20 * (Digits(mag.v + 1) - Digits(NanoUnit)))

\* a call of getSpectrum: the offset i it is at, the sums of the bands, where
\* it is suspended, the number of offsets it processed since it last ran
\* from a suspension point (or from the call), and the largest window start
\* and the largest sample index it used so far (-1: none)
NewCall(buffer) ==
  [buffer |-> buffer, i |-> 0, spectrum |-> [f \in 1 .. NumBands |-> Db(0)],
   awaiting |-> "none", burst |-> 0, result |-> <<>>, maxStart |-> -1, maxRead |-> -1]

\* the body of the loop for offset i: spectrum[fIdx] += db for every band
ProcessOffset(c, isMobile) ==
  CHOOSE next \in
    {[c EXCEPT !.spectrum = [f \in 1 .. NumBands |->
                               Add(c.spectrum[f], Decibels(Magnitude(w.v, isMobile)))],
               !.i = @ + 1, !.burst = @ + 1,
               !.maxStart = Max(@, w.start), !.maxRead = Max(@, w.read)] :
       w \in {[v |-> s.v, read |-> s.read, start |-> start] :
                start \in {c.i * Step(c.buffer, isMobile)},
                s \in {WindowSum(c.buffer, c.i * Step(c.buffer, isMobile), 0,
                                 Iterations(isMobile), isMobile)}}} : TRUE

\* getSpectrum from the head of the loop to its next suspension point or to
\* its return: on a mobile device every offset awaits an animation frame
\* first, elsewhere the loop runs through
RECURSIVE LoopHead(_, _)
LoopHead(c, isMobile) ==
  IF c.i >= numSamples(isMobile)
  THEN [c EXCEPT !.awaiting = "returned",
                 !.result = [f \in 1 .. NumBands |->
                               Div(c.spectrum[f], numSamples(isMobile))]]
  ELSE IF isMobile THEN [c EXCEPT !.awaiting = "frame"]
  ELSE CHOOSE r \in {LoopHead(n, isMobile) : n \in {ProcessOffset(c, isMobile)}} : TRUE

\* the animation frame arrived: every fifth offset waits 10 ms more
AfterFrame(c, isMobile) ==
  IF c.i % 5 = 0 THEN [c EXCEPT !.awaiting = "timeout", !.burst = 0]
  ELSE LoopHead(ProcessOffset([c EXCEPT !.burst = 0], isMobile), isMobile)

\* the 10 ms timer fired
AfterTimeout(c, isMobile) ==
  LoopHead(ProcessOffset([c EXCEPT !.burst = 0], isMobile), isMobile)

getSpectrum(buffer, isMobile) == LoopHead(NewCall(buffer), isMobile)

\* ------------------------------------------------------------ handleMatch
NoBuffer == [length |-> 0, sampleRate |-> 0, level |-> 0]
NoCall == NewCall(NoBuffer)

NoAnalysis ==
  [pc |-> "idle", isMobile |-> FALSE, isMatching |-> FALSE,
   sBuffer |-> NoBuffer, tBuffer |-> NoBuffer,
   active |-> {}, call |-> NoCall, timer |-> "none",
   sSpec |-> <<>>, tSpec |-> <<>>, gains |-> <<>>, alerted |-> FALSE]

\* catch: alert(...); finally: setIsMatching(false)
Fail(a) == [a EXCEPT !.pc = "failed", !.alerted = TRUE, !.isMatching = FALSE,
                     !.active = {}, !.call = NoCall]

\* if (sSpec && tSpec) { calculateMatchedGains(sSpec, tSpec); ... }
Finish(a) ==
  [a EXCEPT !.pc = "done", !.isMatching = FALSE,
            !.gains = calculateMatchedGains(a.sSpec, a.tSpec)]

\* sSpec = await getSpectrum(sBuffer) / tSpec = await getSpectrum(tBuffer):
\* the call runs to its first suspension point, or returns at once
Estimate(a, which) ==
  LET buffer == IF which = "source" THEN a.sBuffer ELSE a.tBuffer
  IN  IF buffer = NoBuffer THEN Fail(a)
      ELSE [a EXCEPT !.pc = which, !.active = @ \union {which},
                     !.call = getSpectrum(buffer, a.isMobile)]

\* the pause between the estimations is left out
Cooldown_Skipped(a) == Estimate(a, "target")

\* await new Promise(r => setTimeout(r, 600))
Cooldown(a) == [a EXCEPT !.pc = "cooldown", !.timer = "pending"]

\* the call of getSpectrum returned: handleMatch goes on behind its await
Continue(a) ==
  IF a.call.awaiting # "returned" THEN a
  ELSE IF a.pc = "source"
       THEN Cooldown([a EXCEPT !.sSpec = a.call.result, !.active = @ \ {"source"}])
       ELSE Finish([a EXCEPT !.tSpec = a.call.result, !.active = @ \ {"target"}])

\* ---------------------------------------------------------------- presets
DEFAULT_IDS == {"flat", "concert-hall", "rock", "pop", "jazz", "classical"}

\* the presets of the model: one built-in preset and the custom presets "1"
\* and "2" (rows of db.presets), with two of their fields
PresetIds == {"flat", "1", "2"}
CustomIds == PresetIds \ DEFAULT_IDS
Fields == {"volume", "reverbDry"}

\* no field (a Partial<Preset> holds a value for some fields, NULL: absent)
NoFields == [f \in Fields |-> NULL]

\* { ...a, ...b }
Spread(a, b) == [f \in Fields |-> IF b[f] # NULL THEN b[f] ELSE a[f]]

\* The state of the page at mount: no preset is active, nothing is pending.
\* `edited` keeps, for every custom preset, the last value given to a field
\* while that preset was active, and `given` every value given to it.
NoPresetEdits ==
  [activePresetId |-> "none",
   presets |-> [p \in PresetIds |-> NoFields],
   db |-> [p \in CustomIds |-> NoFields],
   pendingChanges |-> NoFields,
   debounceTimer |-> "none",
   edited |-> [p \in CustomIds |-> NoFields],
   given |-> [p \in CustomIds |-> [f \in Fields |-> {}]]]

\* applyPreset: setActivePresetId(p.id)
applyPreset(s, p) == [s EXCEPT !.activePresetId = p]

\* updateActivePreset(updatedFields): the local copy is changed at once; for
\* a custom preset the fields are merged into pendingChangesRef and the
\* timer is set anew, its callback holding the activePresetId of this call
updateActivePreset(s, updatedFields) ==
  IF s.activePresetId = "none" THEN s
  ELSE LET s1 == [s EXCEPT !.presets[s.activePresetId] = Spread(@, updatedFields)]
       IN  IF s.activePresetId \notin DEFAULT_IDS
           THEN [s1 EXCEPT !.pendingChanges = Spread(@, updatedFields),
                           !.debounceTimer = s.activePresetId,
                           !.edited[s.activePresetId] = Spread(@, updatedFields),
                           !.given[s.activePresetId] =
                             [f \in Fields |->
                                @[f] \cup ({updatedFields[f]} \ {NULL})]]
           ELSE s1

\* the callback of the debounce timer: db.presets.update(activePresetId, changes)
DebounceCallback(s) ==
  [s EXCEPT !.db[s.debounceTimer] = Spread(@, s.pendingChanges),
            !.pendingChanges = NoFields,
            !.debounceTimer = "none"]

\* ------------------------------------------- callbacks and media session
\* the handlers that are not given are set to null
setAudioEngineCallbacks_ClearsMissing(e, cb) == [e EXCEPT !.callbacks = cb]

setAudioEngineCallbacks(e, cb) ==
  [e EXCEPT !.callbacks =
     [f \in DOMAIN @ |-> IF cb[f] # NULL THEN cb[f] ELSE @[f]]]

\* onPlaybackChange?.(arg), onSeekTo?.(arg), onTrackEnd?.(): the handler
\* held at the time of the call receives it, if there is one
Invoke(e, fn, arg) ==
  IF e.callbacks[fn] # NULL
  THEN [e EXCEPT !.delivered = Append(@, [fn |-> fn, to |-> e.callbacks[fn], arg |-> arg])]
  ELSE e

\* the handlers are registered once only, when no metadata was set before
updateMediaMetadata_RegistersOnce(e) ==
  IF e.mediaSession.metadata = "none"
  THEN [e EXCEPT !.mediaSession = [metadata |-> "set", handlers |-> MediaActions]]
  ELSE e

\* updateMediaMetadata: new metadata, then setActionHandler for every action
updateMediaMetadata(e) ==
  [e EXCEPT !.mediaSession = [metadata |-> "set", handlers |-> MediaActions]]

\* ------------------------------------------------------ playback controller
clearTimeout(e, id) == [e EXCEPT !.timers = {t \in @ : t.id # id}]

\* source.stop() (its InvalidStateError on a node never started is caught)
\* and source.disconnect(): a playing node stops and its 'ended' event is
\* queued; the handler assigned to onended stays on the node.
StopNode(n) ==
  IF n.state = "playing"
  THEN [n EXCEPT !.state = "stopped", !.endedQueued = TRUE, !.connected = FALSE]
  ELSE [n EXCEPT !.connected = FALSE]

\* mediaElement.pause(); src = ""; load(): load() rejects the pending play
\* promise and removes the element's queued events.
UnloadElement(m) == IF m.state = "null" THEN m ELSE EmptyElement

\* the source is dropped without source.stop()
immediateStop_NoSourceStop(e) ==
  LET e1 == IF e.stopTimeout # NULL
            THEN [clearTimeout(e, e.stopTimeout) EXCEPT !.stopTimeout = NULL]
            ELSE e
  IN  [e1 EXCEPT !.source = NULL, !.mediaElement = UnloadElement(@),
                 !.isPlayingInternal = FALSE]

\* the pending timer is not cleared
immediateStop_KeepsTimer(e) ==
  LET e2 == IF e.source # NULL
            THEN [e EXCEPT !.nodes[e.source] = StopNode(@), !.source = NULL]
            ELSE e
  IN  [e2 EXCEPT !.mediaElement = UnloadElement(@), !.isPlayingInternal = FALSE]

\* the stream element is left as it is
immediateStop_KeepsElement(e) ==
  LET e1 == IF e.stopTimeout # NULL
            THEN [clearTimeout(e, e.stopTimeout) EXCEPT !.stopTimeout = NULL]
            ELSE e
      e2 == IF e1.source # NULL
            THEN [e1 EXCEPT !.nodes[e1.source] = StopNode(@), !.source = NULL]
            ELSE e1
  IN  [e2 EXCEPT !.isPlayingInternal = FALSE]

immediateStop(e) ==
  LET e1 == IF e.stopTimeout # NULL
            THEN [clearTimeout(e, e.stopTimeout) EXCEPT !.stopTimeout = NULL]
            ELSE e
      e2 == IF e1.source # NULL
            THEN [e1 EXCEPT !.nodes[e1.source] = StopNode(@), !.source = NULL]
            ELSE e1
  IN  [e2 EXCEPT !.mediaElement = UnloadElement(@), !.isPlayingInternal = FALSE]

\* audioContext.createBufferSource(): the nodes are numbered in the order
\* of their creation
FreshNode(e) == Cardinality(DOMAIN e.nodes) + 1

NewNode(buffer) ==
  [buffer |-> buffer, state |-> "created", connected |-> TRUE, startedAt |-> 0,
   offset |-> 0, endedQueued |-> FALSE, onended |-> FALSE]

\* source.start(0, startAt): RangeError for a negative offset
StartThrows(startAt) == startAt < 0

\* a new chain of filter nodes is created for every play
playBuffer_RebuildsGraph(e, buffer, startAt, p, now) ==
  IF e.audioContext = "null" THEN e
  ELSE
    LET e1 == immediateStop([e EXCEPT !.graphBuilds = @ + 1,
                                      !.filters = [i \in 1 .. NumBands |-> 0]])
        id == FreshNode(e1)
        e2 == [e1 EXCEPT !.currentBuffer = buffer, !.offsetTime = startAt,
                         !.startTime = now, !.source = id,
                         !.nodes = @ @@ (id :> NewNode(buffer))]
        e3 == ApplyParams(e2, p)
    IN  IF StartThrows(startAt) THEN [e3 EXCEPT !.threw = TRUE, !.atStart = AtStart(e3)]
        ELSE updateMediaMetadata(
               [e3 EXCEPT !.atStart = AtStart(e3),
                          !.nodes[id].state = "playing",
                          !.nodes[id].startedAt = now,
                          !.nodes[id].offset = startAt,
                          !.isPlayingInternal = TRUE,
                          !.playbackMode = "buffer",
                          !.nodes[id].onended = TRUE])

\* the source is started before the FX parameters are applied
playBuffer_StartsFirst(e, buffer, startAt, p, now) ==
  IF e.audioContext = "null" THEN e
  ELSE
    LET e1 == immediateStop(e)
        id == FreshNode(e1)
        e2 == [e1 EXCEPT !.currentBuffer = buffer, !.offsetTime = startAt,
                         !.startTime = now, !.source = id,
                         !.nodes = @ @@ (id :> NewNode(buffer))]
        e3 == ApplyParams(e2, p)
    IN  IF StartThrows(startAt) THEN [e3 EXCEPT !.threw = TRUE, !.atStart = AtStart(e2)]
        ELSE updateMediaMetadata(
               [e3 EXCEPT !.atStart = AtStart(e2),
                          !.nodes[id].state = "playing",
                          !.nodes[id].startedAt = now,
                          !.nodes[id].offset = startAt,
                          !.isPlayingInternal = TRUE,
                          !.playbackMode = "buffer",
                          !.nodes[id].onended = TRUE])

playBuffer(e, buffer, startAt, p, now) ==
  IF e.audioContext = "null" THEN e
  ELSE
    LET e1 == immediateStop(e)
        id == FreshNode(e1)
        e2 == [e1 EXCEPT !.currentBuffer = buffer, !.offsetTime = startAt,
                         !.startTime = now, !.source = id,
                         !.nodes = @ @@ (id :> NewNode(buffer))]
        e3 == ApplyParams(e2, p)
    IN  IF StartThrows(startAt) THEN [e3 EXCEPT !.threw = TRUE, !.atStart = AtStart(e3)]
        ELSE updateMediaMetadata(
               [e3 EXCEPT !.atStart = AtStart(e3),
                          !.nodes[id].state = "playing",
                          !.nodes[id].startedAt = now,
                          !.nodes[id].offset = startAt,
                          !.isPlayingInternal = TRUE,
                          !.playbackMode = "buffer",
                          !.nodes[id].onended = TRUE])

playStream(e, url, startAt, p) ==
  IF e.audioContext = "null" THEN e
  ELSE
    LET e1 == immediateStop(e)
        e2 == [e1 EXCEPT !.currentBuffer = "none", !.offsetTime = startAt]
        e3 == ApplyParams(e2, p)
    IN  [e3 EXCEPT !.atStart = AtStart(e3),
                   !.mediaElement = [src |-> url, state |-> "loading",
                                     startAt |-> startAt, currentTime |-> 0,
                                     endedQueued |-> FALSE],
                   !.isPlayingInternal = TRUE,
                   !.playbackMode = "stream"]

FreshTimer(e) == CHOOSE id \in 1 .. Cardinality(e.timers) + 2 :
                   /\ id # e.stopTimeout
                   /\ \A t \in e.timers : t.id # id
                   /\ \A j \in 1 .. id - 1 :
                        j = e.stopTimeout \/ \E t \in e.timers : t.id = j

\* setTimeout(callback, fadeTime * 1000)
setTimeout(e, id, delay, now) ==
  [e EXCEPT !.timers = @ \union {[id |-> id, deadline |-> now + delay]}]

\* the timer of an earlier stop is not cleared
stop_KeepsOldTimer(e, fadeTime, now) ==
  LET e2 == [e EXCEPT !.isPlayingInternal = FALSE]
      e3 == IF e2.audioContext # "null"
            THEN [e2 EXCEPT !.mainGain = setTargetAtTime(@, 0)]
            ELSE e2
      id == FreshTimer(e3)
  IN  [setTimeout(e3, id, fadeTime, now) EXCEPT !.stopTimeout = id]

stop(e, fadeTime, now) ==
  LET e1 == IF e.stopTimeout # NULL THEN clearTimeout(e, e.stopTimeout) ELSE e
      e2 == [e1 EXCEPT !.isPlayingInternal = FALSE]
      e3 == IF e2.audioContext # "null"
            THEN [e2 EXCEPT !.mainGain = setTargetAtTime(@, 0)]
            ELSE e2
      id == FreshTimer(e3)
  IN  [setTimeout(e3, id, fadeTime, now) EXCEPT !.stopTimeout = id]

\* the mode is not reset
Teardown_KeepsMode(e) == immediateStop(e)

\* the callback of stop's timer
Teardown(e) == [immediateStop(e) EXCEPT !.playbackMode = "none"]

\* the defaults of playBuffer and playStream: volume 0.5, rd 1.0, rw 0.2
DefaultParams == [volume |-> 50, eq |-> [i \in 1 .. NumBands |-> 0], rd |-> 100, rw |-> 20]

\* the buffer is restarted with the default FX parameters
seekTo_DefaultParams(e, t, p, now) ==
  LET e1 == [e EXCEPT !.offsetTime = t]
  IN  IF e1.playbackMode = "stream" /\ e1.mediaElement.state # "null"
      THEN [e1 EXCEPT !.mediaElement.currentTime = IF t < 0 THEN 0 ELSE t]
      ELSE IF e1.playbackMode = "buffer" /\ e1.currentBuffer # "none"
           THEN playBuffer(e1, e1.currentBuffer, t, DefaultParams, now)
           ELSE e1

\* a seek in stream mode loads the stream again
seekTo_ReloadsStream(e, t, p, now) ==
  LET e1 == [e EXCEPT !.offsetTime = t]
  IN  IF e1.playbackMode = "stream" /\ e1.mediaElement.state # "null"
      THEN playStream(e1, e1.mediaElement.src, t, p)
      ELSE IF e1.playbackMode = "buffer" /\ e1.currentBuffer # "none"
           THEN playBuffer(e1, e1.currentBuffer, t, p, now)
           ELSE e1

seekTo(e, t, p, now) ==
  LET e1 == [e EXCEPT !.offsetTime = t]
  IN  IF e1.playbackMode = "stream" /\ e1.mediaElement.state # "null"
      THEN [e1 EXCEPT !.mediaElement.currentTime = IF t < 0 THEN 0 ELSE t]
      ELSE IF e1.playbackMode = "buffer" /\ e1.currentBuffer # "none"
           THEN playBuffer(e1, e1.currentBuffer, t, p, now)
           ELSE e1

\* source.onended of playBuffer
BufferOnEnded(e) ==
  IF e.playbackMode = "buffer"
  THEN Invoke(Invoke([e EXCEPT !.isPlayingInternal = FALSE,
                               !.calls = @ \o <<"onPlaybackChange(false)", "onTrackEnd">>],
                     "onPlaybackChange", "false"),
              "onTrackEnd", "")
  ELSE e

\* mediaElement.onended of playStream
StreamOnEnded(e) ==
  Invoke(Invoke([e EXCEPT !.isPlayingInternal = FALSE,
                          !.calls = @ \o <<"onPlaybackChange(false)", "onTrackEnd">>],
                "onPlaybackChange", "false"),
         "onTrackEnd", "")

\* the construction of the graph, lines 61-130: every filter gain 0, every
\* GainNode at its default 1, a fresh stream element
BuildGraph(e, state) ==
  [e EXCEPT !.audioContext = state,
            !.graphBuilds = @ + 1,
            !.filters = [i \in 1 .. NumBands |-> 0],
            !.reverbDry = 100, !.reverbWet = 100, !.mainGain = 100,
            !.echo = NewEcho,
            !.mediaElement = EmptyElement]

\* the graph is built again whenever the context is not running
initContext_Rebuilds(e, state) ==
  LET e1 == IF e.audioContext # "running" THEN BuildGraph(e, state) ELSE e
  IN  IF e1.audioContext = "suspended" THEN [e1 EXCEPT !.resuming = @ + 1] ELSE e1

\* initContext: the graph is built on the first call only, synchronously;
\* `state` is the state the browser gives a new AudioContext.  A call that
\* finds the context suspended awaits audioContext.resume().
initContext(e, state) ==
  LET e1 == IF e.audioContext = "null" THEN BuildGraph(e, state) ELSE e
  IN  IF e1.audioContext = "suspended" THEN [e1 EXCEPT !.resuming = @ + 1] ELSE e1

\* suspendContext
suspendContext(e) ==
  IF e.audioContext = "running" THEN [e EXCEPT !.audioContext = "suspended"] ELSE e

\* --------------------------------------------------------------- the loader
SliceLimit == 8      \* MB decoded of a large file on a mobile device
RetryLimit == 20     \* MB below which a failed decode is tried on the whole data
FallbackAsset == "/audio/base.wav"

\* What is given to the loader: a URL or a file, the size of its data in MB,
\* whether the whole data decode (`full`) and whether the first SliceLimit
\* MB alone decode (`head`).  A response of the server that is no audio (a
\* missing file) is data that do not decode.
LoadInputs ==
  { i \in [kind : {"string", "blob"}, name : {FallbackAsset, "file"},
           size : {4, 12, 24}, full : BOOLEAN, head : BOOLEAN] :
      /\ (i.kind = "string") = (i.name = FallbackAsset)
      /\ i.size <= SliceLimit => i.head = i.full }

NoInput == [kind |-> "none", name |-> "none", size |-> 0, full |-> FALSE, head |-> FALSE]

Resolved(e, buffer) == [eng |-> e, outcome |-> "resolved", buffer |-> buffer]
Rejected(e) == [eng |-> e, outcome |-> "rejected", buffer |-> "none"]

\* a failure to decode is answered with the synthetic tone of createSampleBuffer
loadBufferForAnalysis_SubstitutesSample(e, in, isMobile) ==
  LET e1 == initContext(e, "running")
      sliced == isMobile /\ in.size > SliceLimit
  IN  IF (IF sliced THEN in.head ELSE in.full)
      THEN Resolved(e1, IF sliced THEN "head" ELSE "full")
      ELSE Resolved(e1, "sample")

\* loadBufferForAnalysis: the promise it returns resolves with a decoding of
\* the data given ("full", or "head" for the slice) or rejects
loadBufferForAnalysis(e, in, isMobile) ==
  LET e1 == initContext(e, "running")
      sliced == isMobile /\ in.size > SliceLimit
      blobSize == IF sliced THEN SliceLimit ELSE in.size
  IN  IF (IF sliced THEN in.head ELSE in.full)
      THEN Resolved(e1, IF sliced THEN "head" ELSE "full")
      ELSE IF blobSize < RetryLimit
           THEN IF in.full THEN Resolved(e1, "full") ELSE Rejected(e1)
           ELSE Rejected(e1)

loadAudio(e, in, isMobile) == loadBufferForAnalysis(e, in, isMobile)

getDuration(e) ==
  IF e.playbackMode = "stream" /\ e.mediaElement.state # "null"
  THEN MediaDuration(e.mediaElement)
  ELSE IF e.currentBuffer # "none" THEN Duration(e.currentBuffer) ELSE 0

getCurrentTime(e, now) ==
  IF e.audioContext = "null" THEN e.offsetTime
  ELSE IF e.playbackMode = "stream" /\ e.mediaElement.state # "null"
       THEN e.mediaElement.currentTime
       ELSE IF e.isPlayingInternal THEN now - e.startTime + e.offsetTime
            ELSE e.offsetTime

\* the step of the seekbackward and seekforward handlers, in seconds
SeekStep == 10

\* the handler updateMediaMetadata registers for a control-surface action
\* (lines 275-281), run for an event of that action
ActionHandler(e, action, seekTime, now) ==
  IF action = "play" THEN Invoke(e, "onPlaybackChange", "true")
  ELSE IF action = "pause" THEN Invoke(e, "onPlaybackChange", "false")
  ELSE IF action = "seekto" THEN Invoke(e, "onSeekTo", seekTime)
  ELSE IF action = "seekbackward"
       THEN Invoke(e, "onSeekTo",
                   IF getCurrentTime(e, now) - SeekStep > 0
                   THEN getCurrentTime(e, now) - SeekStep ELSE 0)
       ELSE Invoke(e, "onSeekTo",
                   IF getCurrentTime(e, now) + SeekStep < getDuration(e)
                   THEN getCurrentTime(e, now) + SeekStep ELSE getDuration(e))

getIsPlaying(e) == e.isPlayingInternal

\* ------------------------------------------------------------ the player
\* The tracks of the database: "A" and "B" are decoded to buffers by
\* prepareTrackSource, "U" is a large file on a mobile device and is streamed.
StoredTracks == <<"A", "U", "B">>

\* selections that await prepareTrackSource at one time
MaxSelects == 2

NoPick == [fn |-> "none", kind |-> "none", index |-> 0, currentIndex |-> 0, shown |-> 0,
           length |-> 0, isShuffle |-> FALSE, repeatMode |-> "none"]
NoSelect == [track |-> "none", shouldPlay |-> FALSE]

\* The state of the page before its mount effects run.  `closure` holds the
\* currentTrack and isPlaying of the render in which the callbacks effect
\* last ran (its dependencies are library, isShuffle and repeatMode);
\* `selects` are the calls of handleTrackSelect that await their source;
\* `last` is the latest call of handleTrackSelect and `pick` the latest
\* decision of playNextTrack or playPreviousTrack, with the index of the
\* current track as the function saw it (`currentIndex`) and as the page
\* showed it (`shown`).
NoPlayer ==
  [mounted |-> FALSE, library |-> <<>>, currentTrack |-> "none", isPlaying |-> FALSE,
   repeatMode |-> "none", isShuffle |-> FALSE,
   closure |-> [currentTrack |-> "none", isPlaying |-> FALSE],
   selects |-> <<>>, last |-> NoSelect, pick |-> NoPick]

\* the engine and the page together
World(e, p) == [eng |-> e, page |-> p]

\* the handlers the page registers
PageCallbacks == [onPlaybackChange |-> 1, onSeekTo |-> 1, onTrackEnd |-> 1]

\* setCurrentTrack(t) and the effect on [currentTrack]
SetCurrentTrack(w, t) ==
  World(IF t # "none" THEN updateMediaMetadata(w.eng) ELSE w.eng,
        [w.page EXCEPT !.currentTrack = t])

\* The effects on [library]: currentTrack is initialized with the first
\* track, and the callbacks are registered anew with the functions of the
\* render that saw the change.
LibraryChanged(w) ==
  LET w1 == World(setAudioEngineCallbacks(w.eng, PageCallbacks),
                  [w.page EXCEPT !.closure = [currentTrack |-> w.page.currentTrack,
                                              isPlaying |-> w.page.isPlaying]])
  IN  IF Len(w1.page.library) > 0 /\ w1.page.currentTrack = "none"
      THEN SetCurrentTrack(w1, w1.page.library[1])
      ELSE w1

\* the effect on [library, isShuffle, repeatMode] alone
ControlsChanged(w) ==
  World(setAudioEngineCallbacks(w.eng, PageCallbacks),
        [w.page EXCEPT !.closure = [currentTrack |-> w.page.currentTrack,
                                    isPlaying |-> w.page.isPlaying]])

\* what a function of the current render sees, and what a function held by
\* the callbacks sees
Render(p) == [library |-> p.library, currentTrack |-> p.currentTrack,
              isPlaying |-> p.isPlaying, repeatMode |-> p.repeatMode,
              isShuffle |-> p.isShuffle]
Closure(p) == [Render(p) EXCEPT !.currentTrack = p.closure.currentTrack,
                                !.isPlaying = p.closure.isPlaying]

\* library.findIndex(t => t.id === currentTrack?.id)
findIndex(lib, id) ==
  IF \E k \in DOMAIN lib : lib[k] = id
  THEN (CHOOSE k \in DOMAIN lib : lib[k] = id /\ \A j \in 1 .. k - 1 : lib[j] # id) - 1
  ELSE -1

Pick(fn, v, kind, index) ==
  [fn |-> fn, kind |-> kind, index |-> index,
   currentIndex |-> findIndex(v.library, v.currentTrack),
   shown |-> findIndex(v.library, v.currentTrack),
   length |-> Len(v.library), isShuffle |-> v.isShuffle, repeatMode |-> v.repeatMode]

\* playNextTrack: the decision it takes, `random` being
\* Math.floor(Math.random() * library.length)
playNextTrack(v, random) ==
  IF Len(v.library) = 0 THEN Pick("next", v, "return", 0)
  ELSE IF v.repeatMode = "one" /\ v.currentTrack # "none" THEN Pick("next", v, "seek", 0)
  ELSE LET currentIndex == findIndex(v.library, v.currentTrack) IN
       IF v.isShuffle
       THEN Pick("next", v, "select",
                 IF random = currentIndex /\ Len(v.library) > 1
                 THEN (random + 1) % Len(v.library) ELSE random)
       ELSE IF currentIndex + 1 >= Len(v.library)
            THEN IF v.repeatMode = "all" THEN Pick("next", v, "select", 0)
                 ELSE Pick("next", v, "return", 0)
            ELSE Pick("next", v, "select", currentIndex + 1)

\* playPreviousTrack
playPreviousTrack(v, random) ==
  IF Len(v.library) = 0 THEN Pick("previous", v, "return", 0)
  ELSE LET currentIndex == findIndex(v.library, v.currentTrack) IN
       IF v.isShuffle THEN Pick("previous", v, "select", random)
       ELSE IF currentIndex - 1 < 0
            THEN Pick("previous", v, "select",
                      IF v.repeatMode = "all" THEN Len(v.library) - 1 ELSE 0)
            ELSE Pick("previous", v, "select", currentIndex - 1)

\* handleManualSeek(time)
handleManualSeek(w, time, now) == World(seekTo(w.eng, time, DefaultParams, now), w.page)

\* handleTrackSelect up to the await of prepareTrackSource; library[i] of an
\* index outside the library is undefined, and the call fails at track.buffer
handleTrackSelect(w, track, shouldPlay) ==
  LET w1 == SetCurrentTrack(World(initContext(w.eng, "running"), w.page), track)
  IN  IF track = "none" THEN w1
      ELSE World(w1.eng,
                 [w1.page EXCEPT !.selects = Append(@, [track |-> track, shouldPlay |-> shouldPlay]),
                                 !.last = [track |-> track, shouldPlay |-> shouldPlay]])

\* the rest of handleTrackSelect, once prepareTrackSource has returned for
\* the k-th call that waits: a buffer, a URL, or null (`found` false)
PrepareReturns(w, k, found, now) ==
  LET sel == w.page.selects[k]
      rest == [j \in 1 .. Len(w.page.selects) - 1 |->
                 IF j < k THEN w.page.selects[j] ELSE w.page.selects[j + 1]]
      w0 == World(w.eng, [w.page EXCEPT !.selects = rest])
  IN  IF ~found THEN World(w0.eng, [w0.page EXCEPT !.last = NoSelect])
      ELSE LET w1 == SetCurrentTrack(w0, sel.track) IN
           IF sel.track \in Buffers
           THEN LibraryChanged(
                  IF sel.shouldPlay
                  THEN World(playBuffer(w1.eng, sel.track, 0, DefaultParams, now),
                             [w1.page EXCEPT !.isPlaying = TRUE])
                  ELSE w1)
           ELSE IF sel.shouldPlay
                THEN World(playStream(w1.eng, "U", 0, DefaultParams),
                           [w1.page EXCEPT !.isPlaying = TRUE])
                ELSE w1

\* what playNextTrack and playPreviousTrack do with their decision
Follow(w, v, pick, now) ==
  LET w1 == World(w.eng, [w.page EXCEPT !.pick =
                    [pick EXCEPT !.shown = findIndex(w.page.library, w.page.currentTrack)]])
  IN  IF pick.kind = "seek" THEN handleManualSeek(w1, 0, now)
      ELSE IF pick.kind = "select"
           THEN handleTrackSelect(w1,
                                  IF pick.index + 1 \in DOMAIN v.library
                                  THEN v.library[pick.index + 1] ELSE "none",
                                  v.isPlaying)
           ELSE w1

\* The handlers of the page receive what the engine delivered:
\* onPlaybackChange sets isPlaying, onTrackEnd runs the playNextTrack of the
\* render the callbacks were registered in.
Deliver(w, random, now) ==
  LET d == w.eng.delivered
      changes == {k \in DOMAIN d : d[k].fn = "onPlaybackChange"}
      w1 == IF changes = {} THEN w
            ELSE World(w.eng, [w.page EXCEPT !.isPlaying =
                                 \E k \in changes : d[k].arg = "true" /\ \A j \in changes : j <= k])
  IN  IF \E k \in DOMAIN d : d[k].fn = "onTrackEnd"
      THEN Follow(w1, Closure(w1.page), playNextTrack(Closure(w1.page), random), now)
      ELSE w1

\* deleteTrack(id), once the database has removed the track
deleteTrack(w, id) ==
  LET lib == SelectSeq(w.page.library, LAMBDA t : t # id)
      cur == IF w.page.currentTrack = id THEN "none" ELSE w.page.currentTrack
  IN  LibraryChanged(World(w.eng, [w.page EXCEPT !.library = lib, !.currentTrack = cur,
                                                 !.last = IF cur = "none" THEN NoSelect ELSE @]))

\* --------------------------------------------------------------- the machine
NoEvent == [kind |-> "none", current |-> FALSE]
NoParams == [volume |-> 0, eq |-> <<>>, rd |-> 0, rw |-> 0]

\* The record of an operation: its name and the arguments the properties
\* refer to.  `ended` describes the 'ended' event a handler was run for:
\* whether its source ran out ("natural") or was stopped ("forced"), and
\* whether it was the source of the session held at that moment.
Op(name) == [op |-> name, p |-> NoParams, fade |-> 0, i |-> 0, db |-> 0,
             ended |-> NoEvent, cb |-> NoCallbacks]

\* A node that is neither held in `source`, nor playing, nor owed an 'ended'
\* event can no longer be observed: it is dropped from the table.  The start time and
\* offset of a node that no longer plays are never read again and are
\* cleared.  The nodes left are renumbered in the order of their creation.
Settle(n) == IF n.state = "playing" THEN n ELSE [n EXCEPT !.startedAt = 0, !.offset = 0]

Collect(e) ==
  LET keep == {id \in DOMAIN e.nodes :
                 id = e.source \/ e.nodes[id].endedQueued \/ e.nodes[id].state = "playing"}
      rank(id) == Cardinality({j \in keep : j <= id})
      old(k) == CHOOSE id \in keep : rank(id) = k
  IN  [e EXCEPT !.nodes = [k \in 1 .. Cardinality(keep) |-> Settle(e.nodes[old(k)])],
                !.source = IF e.source = NULL THEN NULL ELSE rank(e.source)]

Set(e0, o) ==
  \E e \in {Collect(e0)} :
  /\ audioContext' = e.audioContext
  /\ resuming' = e.resuming
  /\ callbacks' = e.callbacks
  /\ mediaSession' = e.mediaSession
  /\ graphBuilds' = e.graphBuilds
  /\ source' = e.source
  /\ nodes' = e.nodes
  /\ filters' = e.filters
  /\ mainGain' = e.mainGain
  /\ reverbDry' = e.reverbDry
  /\ reverbWet' = e.reverbWet
  /\ echo' = e.echo
  /\ mediaElement' = e.mediaElement
  /\ currentBuffer' = e.currentBuffer
  /\ startTime' = e.startTime
  /\ offsetTime' = e.offsetTime
  /\ isPlayingInternal' = e.isPlayingInternal
  /\ stopTimeout' = e.stopTimeout
  /\ playbackMode' = e.playbackMode
  /\ timers' = e.timers
  /\ trace' = [op |-> o.op, p |-> o.p, fade |-> o.fade, i |-> o.i, db |-> o.db,
               ended |-> o.ended, calls |-> e.calls, threw |-> e.threw,
               atStart |-> e.atStart, cb |-> o.cb, delivered |-> e.delivered,
               pending |-> stopTimeout # NULL,
               failed |-> mediaElement.state = "failed" \/ trace.op = "loadFailed"]

NoMatch == [s |-> <<>>, t |-> <<>>, result |-> <<>>, result2 |-> <<>>, done |-> FALSE]

EngineInit ==
  /\ audioContext = "null"
  /\ resuming = 0
  /\ callbacks = NoCallbacks
  /\ mediaSession = NoMediaSession
  /\ graphBuilds = 0
  /\ source = NULL
  /\ nodes = <<>>
  /\ filters = <<>>
  /\ mainGain = NULL
  /\ reverbDry = NULL
  /\ reverbWet = NULL
  /\ echo = NoEcho
  /\ mediaElement = NoElement
  /\ currentBuffer = "none"
  /\ startTime = 0
  /\ offsetTime = 0
  /\ isPlayingInternal = FALSE
  /\ stopTimeout = NULL
  /\ playbackMode = "none"
  /\ timers = {}
  /\ clock = 0
  /\ trace = [op |-> "other", p |-> NoParams, fade |-> 0, i |-> 0, db |-> 0,
              ended |-> NoEvent, calls |-> <<>>, threw |-> FALSE, pending |-> FALSE,
              failed |-> FALSE, atStart |-> NoStart, cb |-> NoCallbacks,
              delivered |-> <<>>]

NoLoad == [caller |-> "none", input |-> NoInput, isMobile |-> FALSE,
           outcome |-> "none", buffer |-> "none", alerted |-> FALSE]

PageInit ==
  /\ load = NoLoad /\ library = <<>> /\ analysis = NoAnalysis
  /\ presetStore = NoPresetEdits /\ player = NoPlayer

Init == EngineInit /\ match = NoMatch /\ PageInit

NodeFree == Cardinality(DOMAIN nodes) < MaxNodes

InitContext(States) ==
  \E st \in States :
    /\ resuming < MaxCalls
    /\ Set(initContext(Eng, st), Op("initContext"))
    /\ UNCHANGED <<clock, pageVars>>

\* audioContext.resume() settles: the context runs and every call of
\* initContext that awaited it returns the context
ResumeSettles ==
  /\ resuming > 0
  /\ Set([Eng EXCEPT !.audioContext = "running", !.resuming = 0], Op("other"))
  /\ UNCHANGED <<clock, pageVars>>

SuspendContext ==
  /\ Set(suspendContext(Eng), Op("suspendContext"))
  /\ UNCHANGED <<clock, pageVars>>

PlayBuffer(BS, OS, PS) ==
  \E b \in BS, o \in OS, p \in PS :
    /\ NodeFree
    /\ Set(playBuffer(Eng, b, o, p, clock), [Op("playBuffer") EXCEPT !.p = p])
    /\ UNCHANGED <<clock, pageVars>>

PlayStream(OS, PS) ==
  \E u \in Urls, o \in OS, p \in PS :
    /\ Set(playStream(Eng, u, o, p), [Op("playStream") EXCEPT !.p = p])
    /\ UNCHANGED <<clock, pageVars>>

Stop ==
  \E f \in FadeTimes :
    /\ clock + f <= MaxClock
    /\ Set(stop(Eng, f, clock), [Op("stop") EXCEPT !.fade = f])
    /\ UNCHANGED <<clock, pageVars>>

SeekTo(OS, PS) ==
  \E t \in OS, p \in PS :
    /\ NodeFree
    /\ Set(seekTo(Eng, t, p, clock), [Op("seekTo") EXCEPT !.p = p])
    /\ UNCHANGED <<clock, pageVars>>

SetEqGain(DS) ==
  \E i \in 0 .. NumBands + 1, db \in DS :
    /\ Set(setEqGain(Eng, i, db), [Op("setEqGain") EXCEPT !.i = i, !.db = db])
    /\ UNCHANGED <<clock, pageVars>>

\* loadBufferForAnalysis rejects (the data cannot be decoded): the call has
\* awaited initContext, and nothing else of the engine is touched
LoadFails ==
  /\ Set(initContext(Eng, "running"), Op("loadFailed"))
  /\ UNCHANGED <<clock, pageVars>>

\* the parameter mutators; the value given is recorded as `db`
SetReverbDry ==
  \E v \in LevelInputs :
    /\ Set(setReverbDry(Eng, v), [Op("setReverbDry") EXCEPT !.db = v])
    /\ UNCHANGED <<clock, pageVars>>

SetReverbWet ==
  \E v \in LevelInputs :
    /\ Set(setReverbWet(Eng, v), [Op("setReverbWet") EXCEPT !.db = v])
    /\ UNCHANGED <<clock, pageVars>>

SetVolume ==
  \E v \in LevelInputs :
    /\ Set(setVolume(Eng, v), [Op("setVolume") EXCEPT !.db = v])
    /\ UNCHANGED <<clock, pageVars>>

SetEchoDelay ==
  \E v \in LevelInputs :
    /\ Set(setEchoDelay(Eng, v), [Op("setEchoDelay") EXCEPT !.db = v])
    /\ UNCHANGED <<clock, pageVars>>

SetEchoFeedback ==
  \E v \in LevelInputs :
    /\ Set(setEchoFeedback(Eng, v), [Op("setEchoFeedback") EXCEPT !.db = v])
    /\ UNCHANGED <<clock, pageVars>>

SetEchoWet ==
  \E v \in LevelInputs :
    /\ Set(setEchoWet(Eng, v), [Op("setEchoWet") EXCEPT !.db = v])
    /\ UNCHANGED <<clock, pageVars>>

SetEchoDry ==
  \E v \in LevelInputs :
    /\ Set(setEchoDry(Eng, v), [Op("setEchoDry") EXCEPT !.db = v])
    /\ UNCHANGED <<clock, pageVars>>

\* the page registers its handlers: all three, or onTrackEnd alone
CallbackSets ==
  { [onPlaybackChange |-> h, onSeekTo |-> h, onTrackEnd |-> h] : h \in 1 .. MaxHandlers }
  \union { [NoCallbacks EXCEPT !.onTrackEnd = MaxHandlers] }

SetAudioEngineCallbacks ==
  \E cb \in CallbackSets :
    /\ Set(setAudioEngineCallbacks(Eng, cb), [Op("setAudioEngineCallbacks") EXCEPT !.cb = cb])
    /\ UNCHANGED <<clock, pageVars>>

UpdateMediaMetadata ==
  /\ Set(updateMediaMetadata(Eng), Op("updateMediaMetadata"))
  /\ UNCHANGED <<clock, pageVars>>

\* the host environment drops the handlers registered (some do so when the
\* metadata is replaced)
HostDropsHandlers ==
  /\ mediaSession.handlers # {}
  /\ Set([Eng EXCEPT !.mediaSession.handlers = {}], Op("hostDropsHandlers"))
  /\ UNCHANGED <<clock, pageVars>>

\* the control surface delivers an event of an action that has a handler
MediaAction ==
  \E a \in mediaSession.handlers, t \in 0 .. MaxOffset :
    /\ a # "seekto" => t = 0
    /\ Set(ActionHandler(Eng, a, t, clock), [Op("mediaAction") EXCEPT !.db = t, !.ended.kind = a])
    /\ UNCHANGED <<clock, pageVars>>

\* syncLibrary prepares the default track: the fallback asset, or the tone
\* of createSampleBuffer when the asset does not load
SyncLibrary ==
  \E in \in {i \in LoadInputs : i.name = FallbackAsset}, m \in BOOLEAN :
    /\ Len(library) < MaxTracks
    /\ LET r == loadAudio(Eng, in, m) IN
         /\ Set(IF r.outcome = "resolved" THEN r.eng ELSE initContext(r.eng, "running"),
                Op("syncLibrary"))
         /\ load' = [caller |-> "syncLibrary", input |-> in, isMobile |-> m,
                     outcome |-> r.outcome, buffer |-> r.buffer, alerted |-> FALSE]
         /\ library' = Append(library,
                              [id |-> "default", src |-> in,
                               buffer |-> IF r.outcome = "resolved" THEN r.buffer
                                          ELSE "sample"])
    /\ UNCHANGED <<clock, match, analysis, presetStore, player>>

\* handleFileUpload in library mode: the file decoded becomes a track, a
\* failure is reported with alert()
HandleFileUpload ==
  \E in \in {i \in LoadInputs : i.kind = "blob"}, m \in BOOLEAN :
    /\ Len(library) < MaxTracks
    /\ LET r == loadAudio(Eng, in, m) IN
         /\ Set(r.eng, Op("handleFileUpload"))
         /\ load' = [caller |-> "handleFileUpload", input |-> in, isMobile |-> m,
                     outcome |-> r.outcome, buffer |-> r.buffer,
                     alerted |-> r.outcome = "rejected"]
         /\ library' = IF r.outcome = "resolved"
                       THEN Append(library, [id |-> "upload", src |-> in, buffer |-> r.buffer])
                       ELSE library
    /\ UNCHANGED <<clock, match, analysis, presetStore, player>>

\* The buffers handed to getSpectrum: empty, shorter than the number of
\* offsets, shorter than one window, and longer than the 30 seconds that are
\* analyzed; silent or of a constant level of 0.001.
AnalysisBuffers ==
  [length : {0, 10, 3000, 2000000}, sampleRate : {44100}, level : {0, 1000000}]

\* handleMatch ran to a1 and goes on behind an await that has settled; when
\* it has finished, the gains are given to the filters (matchedGains.forEach((g, i) => setEqGain(i, g)), in whole dB)
Advance(a1) ==
  \E a2 \in {Continue(a1)} :
  /\ analysis' = a2
  /\ IF a2.pc = "done"
     THEN Set(ApplyEq(Eng, [i \in 1 .. Len(a2.gains) |-> DbOf(a2.gains[i])], 1),
              Op("handleMatch"))
     ELSE UNCHANGED <<engineVars, trace>>
  /\ UNCHANGED <<clock, match, load, library, presetStore, player>>

\* the user starts a match on a device, with the buffers of the source and
\* target tracks (NoBuffer: the track could not be loaded)
HandleMatch ==
  \E m \in BOOLEAN, sb \in AnalysisBuffers \union {NoBuffer},
     tb \in AnalysisBuffers \union {NoBuffer} :
    /\ analysis.pc = "idle"
    /\ \E a \in {Estimate([NoAnalysis EXCEPT !.isMobile = m, !.isMatching = TRUE,
                                            !.sBuffer = sb, !.tBuffer = tb],
                         "source")} : Advance(a)

\* requestAnimationFrame runs the callback the call of getSpectrum awaits
FrameArrives ==
  /\ analysis.call.awaiting = "frame"
  /\ \E c \in {AfterFrame(analysis.call, analysis.isMobile)} :
       Advance([analysis EXCEPT !.call = c])

\* the 10 ms timer of getSpectrum fires
SpectrumTimerFires ==
  /\ analysis.call.awaiting = "timeout"
  /\ \E c \in {AfterTimeout(analysis.call, analysis.isMobile)} :
       Advance([analysis EXCEPT !.call = c])

\* the 600 ms timer of handleMatch fires: the target is analyzed
CooldownElapses ==
  /\ analysis.pc = "cooldown" /\ analysis.timer = "pending"
  /\ \E a \in {Estimate([analysis EXCEPT !.timer = "fired"], "target")} : Advance(a)

\* the value the user gives to a field of the FX panel
FieldValues == {30}

\* the user picks a preset: the engine is initialized and the FX effect of
\* the page sets the values of the preset (here the defaults) in the graph
ApplyPreset ==
  \E p \in PresetIds :
    /\ Set(setReverbDry(setVolume(initContext(Eng, "running"), 50), 100), Op("applyPreset"))
    /\ presetStore' = applyPreset(presetStore, p)
    /\ UNCHANGED <<clock, match, load, library, analysis, player>>

\* the user moves a control of the FX panel: the engine is set and the
\* active preset is updated
EditField ==
  \E f \in Fields, v \in FieldValues :
    /\ Set(IF f = "volume" THEN setVolume(Eng, v) ELSE setReverbDry(Eng, v),
           [Op("editField") EXCEPT !.db = v])
    /\ presetStore' = updateActivePreset(presetStore, [NoFields EXCEPT ![f] = v])
    /\ UNCHANGED <<clock, match, load, library, analysis, player>>

\* one second after the last edit the debounce timer fires
DebounceFires ==
  /\ presetStore.debounceTimer # "none"
  /\ presetStore' = DebounceCallback(presetStore)
  /\ UNCHANGED <<engineVars, clock, trace, match, load, library, analysis, player>>

\* an operation of the page that acts on the engine
SetWorld(w, o) == Set(w.eng, o) /\ player' = w.page

\* indices Math.floor(Math.random() * library.length) can give
Randoms == 0 .. IF Len(player.library) = 0 THEN 0 ELSE Len(player.library) - 1

\* The page mounts: syncLibrary reads the tracks of the database, and the
\* effects initialize currentTrack and register the callbacks.
Mount(stored) ==
  /\ ~player.mounted
  /\ SetWorld(LibraryChanged(World(Eng, [player EXCEPT !.mounted = TRUE,
                                                       !.library = stored])),
              Op("mount"))
  /\ UNCHANGED <<clock, match, load, library, analysis, presetStore>>

\* the user picks a track: in the library list with shouldPlay = isPlaying,
\* in the list of the expanded player with shouldPlay = true
SelectTrack ==
  \E k \in DOMAIN player.library, sp \in {TRUE, player.isPlaying} :
    /\ player.mounted
    /\ Len(player.selects) < MaxSelects
    /\ SetWorld(handleTrackSelect(World(Eng, player), player.library[k], sp),
                Op("handleTrackSelect"))
    /\ UNCHANGED <<clock, match, load, library, analysis, presetStore>>

\* prepareTrackSource returns for one of the selections that wait, in any
\* order; it returns null only when the track is no longer stored
PrepareCompletes ==
  \E k \in DOMAIN player.selects, found \in BOOLEAN :
    /\ NodeFree
    /\ ~found => \A j \in DOMAIN player.library : player.library[j] # player.selects[k].track
    /\ SetWorld(PrepareReturns(World(Eng, player), k, found, clock), Op("prepared"))
    /\ UNCHANGED <<clock, match, load, library, analysis, presetStore>>

\* playNextTrack and playPreviousTrack are called with what `v` holds
PlayNext(v) ==
  \E r \in Randoms :
    /\ player.mounted
    /\ Len(player.selects) < MaxSelects
    /\ NodeFree
    /\ SetWorld(Follow(World(Eng, player), v, playNextTrack(v, r), clock),
                Op("playNextTrack"))
    /\ UNCHANGED <<clock, match, load, library, analysis, presetStore>>

PlayPrevious(v) ==
  \E r \in Randoms :
    /\ player.mounted
    /\ Len(player.selects) < MaxSelects
    /\ SetWorld(Follow(World(Eng, player), v, playPreviousTrack(v, r), clock),
                Op("playPreviousTrack"))
    /\ UNCHANGED <<clock, match, load, library, analysis, presetStore>>

\* the buttons of the player call the functions of the current render
NextButton == PlayNext(Render(player))
PreviousButton == PlayPrevious(Render(player))

\* the handlers of 'nexttrack' and 'previoustrack' of the media session are
\* set in the callbacks effect and call the functions of its render
NextTrackAction == PlayNext(Closure(player))
PreviousTrackAction == PlayPrevious(Closure(player))

ToggleShuffle ==
  /\ player.mounted
  /\ SetWorld(ControlsChanged(World(Eng, [player EXCEPT !.isShuffle = ~@])), Op("setIsShuffle"))
  /\ UNCHANGED <<clock, match, load, library, analysis, presetStore>>

CycleRepeat ==
  /\ player.mounted
  /\ SetWorld(ControlsChanged(World(Eng, [player EXCEPT !.repeatMode =
                 IF @ = "none" THEN "all" ELSE IF @ = "all" THEN "one" ELSE "none"])),
              Op("setRepeatMode"))
  /\ UNCHANGED <<clock, match, load, library, analysis, presetStore>>

DeleteTrack ==
  \E k \in DOMAIN player.library :
    /\ SetWorld(deleteTrack(World(Eng, player), player.library[k]), Op("deleteTrack"))
    /\ UNCHANGED <<clock, match, load, library, analysis, presetStore>>

\* updateProgress, run in every animation frame: setIsPlaying(getIsPlaying())
UpdateProgress ==
  /\ player.mounted
  /\ player' = [player EXCEPT !.isPlaying = getIsPlaying(Eng)]
  /\ UNCHANGED <<engineVars, clock, trace, match, load, library, analysis, presetStore>>

\* the 'ended' event of a buffer source node is dispatched, and the page
\* answers the callbacks
BufferTrackEnded ==
  \E id \in DOMAIN nodes, r \in Randoms :
    /\ nodes[id].endedQueued
    /\ Len(player.selects) < MaxSelects
    /\ LET e0 == [Eng EXCEPT !.nodes[id].endedQueued = FALSE]
           ev == [kind |-> IF nodes[id].state = "finished" THEN "natural" ELSE "forced",
                  current |-> id = source]
       IN  SetWorld(Deliver(World(IF nodes[id].onended THEN BufferOnEnded(e0) ELSE e0, player),
                            r, clock),
                    [Op("ended") EXCEPT !.ended = ev])
    /\ UNCHANGED <<clock, match, load, library, analysis, presetStore>>

\* the 'ended' event of the stream element is dispatched, and the page
\* answers the callbacks
StreamTrackEnded ==
  \E r \in Randoms :
    /\ mediaElement.endedQueued
    /\ Len(player.selects) < MaxSelects
    /\ SetWorld(Deliver(World(StreamOnEnded([Eng EXCEPT !.mediaElement.endedQueued = FALSE]),
                              player), r, clock),
                [Op("ended") EXCEPT !.ended = [kind |-> "natural", current |-> TRUE]])
    /\ UNCHANGED <<clock, match, load, library, analysis, presetStore>>

\* the event loop runs the callback of a due timer
TimerFires ==
  \E t \in timers :
    /\ clock >= t.deadline
    /\ Set(Teardown([Eng EXCEPT !.timers = @ \ {t}]), Op("teardown"))
    /\ UNCHANGED <<clock, pageVars>>

\* what is left to play of a started node
Remaining(n) == Duration(n.buffer) - n.offset - (clock - n.startedAt)

\* the audio thread reaches the end of the buffer of a playing node
BufferRunsOut ==
  \E id \in DOMAIN nodes :
    /\ nodes[id].state = "playing"
    /\ Remaining(nodes[id]) <= 0
    /\ Set([Eng EXCEPT !.nodes[id].state = "finished",
                       !.nodes[id].endedQueued = TRUE], Op("other"))
    /\ UNCHANGED <<clock, pageVars>>

\* the 'ended' event of a buffer source node is dispatched
BufferEnded ==
  \E id \in DOMAIN nodes :
    /\ nodes[id].endedQueued
    /\ LET e0 == [Eng EXCEPT !.nodes[id].endedQueued = FALSE]
           ev == [kind |-> IF nodes[id].state = "finished" THEN "natural" ELSE "forced",
                  current |-> id = source]
       IN  Set(IF nodes[id].onended THEN BufferOnEnded(e0) ELSE e0,
               [Op("ended") EXCEPT !.ended = ev])
    /\ UNCHANGED <<clock, pageVars>>

\* the promise of mediaElement.play() resolves: its then-callback runs
PlayResolves ==
  /\ mediaElement.state = "loading"
  /\ Set(updateMediaMetadata(
           [Eng EXCEPT !.mediaElement.state = "playing",
                       !.mediaElement.currentTime =
                          IF mediaElement.startAt > 0 THEN mediaElement.startAt ELSE @,
                       !.mediaElement.startAt = 0]),
         Op("other"))
  /\ UNCHANGED <<clock, pageVars>>

\* the promise of mediaElement.play() is rejected: .catch(() => { })
PlayRejects ==
  /\ mediaElement.state = "loading"
  /\ Set([Eng EXCEPT !.mediaElement.state = "failed", !.mediaElement.startAt = 0],
         Op("other"))
  /\ UNCHANGED <<clock, pageVars>>

\* a network or transport error ends the stream: the element fires 'error',
\* for which playStream sets no handler
StreamError ==
  /\ mediaElement.state = "playing"
  /\ Set([Eng EXCEPT !.mediaElement.state = "failed"], Op("other"))
  /\ UNCHANGED <<clock, pageVars>>

\* the stream reaches its end
StreamRunsOut ==
  /\ mediaElement.state = "playing"
  /\ Set([Eng EXCEPT !.mediaElement.state = "ended",
                     !.mediaElement.endedQueued = TRUE], Op("other"))
  /\ UNCHANGED <<clock, pageVars>>

\* the 'ended' event of the stream element is dispatched
StreamEnded ==
  /\ mediaElement.endedQueued
  /\ Set(StreamOnEnded([Eng EXCEPT !.mediaElement.endedQueued = FALSE]),
         [Op("ended") EXCEPT !.ended = [kind |-> "natural", current |-> TRUE]])
  /\ UNCHANGED <<clock, pageVars>>

\* time passes; a playing node cannot play past the end of its buffer
Tick ==
  /\ clock < MaxClock
  /\ \A id \in DOMAIN nodes : nodes[id].state = "playing" => Remaining(nodes[id]) > 0
  /\ clock' = clock + 1
  /\ UNCHANGED <<engineVars, trace, pageVars>>

Next ==
  \/ InitContext({"running"})
  \/ PlayBuffer(Buffers, Offsets, ParamSets)
  \/ PlayStream(Offsets, ParamSets)
  \/ Stop
  \/ SeekTo(Offsets, ParamSets)
  \/ TimerFires
  \/ BufferRunsOut
  \/ BufferEnded
  \/ PlayResolves
  \/ PlayRejects
  \/ StreamError
  \/ StreamRunsOut
  \/ StreamEnded
  \/ Tick

Spec == Init /\ [][Next]_vars

\* The filter graph alone: its construction by calls of initContext that
\* may overlap, the suspension of its context, and setEqGain with gain
\* arguments on both sides of [-12, 12] and indices on both sides of the
\* band range.
GraphNext ==
  \/ InitContext({"suspended", "running"})
  \/ ResumeSettles
  \/ SuspendContext
  \/ SetEqGain(GainInputs)

GraphSpec == Init /\ [][GraphNext]_vars

\* The parameter mutators, before and after the construction of the graph.
MixNext ==
  \/ InitContext({"running"})
  \/ SetEqGain({5})
  \/ SetReverbDry
  \/ SetReverbWet
  \/ SetVolume
  \/ SetEchoDelay
  \/ SetEchoFeedback
  \/ SetEchoWet
  \/ SetEchoDry

MixSpec == Init /\ [][MixNext]_vars

\* The EQ matcher alone: every pair of profiles of at most MaxLen bands over
\* whole dB values, NaN and Infinity is handed to calculateMatchedGains.
ProfileValues == {Db(-10), Db(2), Db(20), NaN, PosInf}
Profiles == UNION {[1 .. n -> ProfileValues] : n \in 0 .. MaxLen}

MatchInit ==
  /\ EngineInit
  /\ \E s \in Profiles, t \in Profiles : match = [NoMatch EXCEPT !.s = s, !.t = t]
  /\ PageInit

ComputeMatch ==
  /\ ~match.done
  /\ match' = [match EXCEPT !.result = calculateMatchedGains(match.s, match.t),
                            !.result2 = calculateMatchedGains2(match.s, match.t),
                            !.done = TRUE]
  /\ UNCHANGED <<engineVars, clock, trace, load, library, analysis, presetStore, player>>

MatchNext == ComputeMatch

MatchSpec == MatchInit /\ [][MatchNext]_vars

\* The machine under fairness, for the properties of progress: the event
\* loop runs every due timer, the clock advances, and the audio thread ends
\* a node whose buffer is played out.  The callers pass the default FX
\* parameters and one buffer, at the offsets 0 and MaxOffset.
LiveParams == {p \in ParamSets : p.volume = 50}

LiveNext ==
  \/ InitContext({"running"})
  \/ PlayBuffer({"B"}, {0, MaxOffset}, LiveParams)
  \/ PlayStream({0}, LiveParams)
  \/ Stop
  \/ SeekTo({MaxOffset}, LiveParams)
  \/ TimerFires
  \/ BufferRunsOut
  \/ BufferEnded
  \/ PlayResolves
  \/ PlayRejects
  \/ StreamError
  \/ StreamRunsOut
  \/ StreamEnded
  \/ Tick

LiveSpec ==
  /\ Init
  /\ [][LiveNext]_vars
  /\ WF_vars(TimerFires) /\ WF_vars(Tick) /\ WF_vars(BufferRunsOut)

\* The machine with its failures: loads that cannot be decoded, rejected
\* stream plays and stream errors, each followed by any play.  The callers
\* pass the default FX parameters and start at 0.
RecoverNext ==
  \/ InitContext({"running"})
  \/ LoadFails
  \/ PlayBuffer(Buffers, {0}, LiveParams)
  \/ PlayStream({0}, LiveParams)
  \/ Stop
  \/ TimerFires
  \/ BufferRunsOut
  \/ BufferEnded
  \/ PlayResolves
  \/ PlayRejects
  \/ StreamError
  \/ StreamRunsOut
  \/ StreamEnded
  \/ Tick

RecoverSpec == Init /\ [][RecoverNext]_vars

\* The engine with its outbound callbacks and the control surface: handlers
\* are registered and replaced at any time, also while a session plays or
\* fades, and the host may drop the action handlers.  One buffer and one
\* stream are played with the default FX parameters from 0.
CallbackNext ==
  \/ InitContext({"running"})
  \/ SetAudioEngineCallbacks
  \/ UpdateMediaMetadata
  \/ HostDropsHandlers
  \/ MediaAction
  \/ PlayBuffer({"A"}, {0}, LiveParams)
  \/ PlayStream({0}, LiveParams)
  \/ Stop
  \/ TimerFires
  \/ BufferRunsOut
  \/ BufferEnded
  \/ PlayResolves
  \/ StreamRunsOut
  \/ StreamEnded
  \/ Tick

CallbackSpec == Init /\ [][CallbackNext]_vars

\* The page fills its library: the default track and files the user gives,
\* on either device class, of data that decode or do not.
LoadNext ==
  \/ SyncLibrary
  \/ HandleFileUpload

LoadSpec == Init /\ [][LoadNext]_vars

\* A match run on either device class, before or after the engine is
\* initialized.
AnalysisNext ==
  \/ InitContext({"running"})
  \/ HandleMatch
  \/ FrameArrives
  \/ SpectrumTimerFires
  \/ CooldownElapses

AnalysisSpec == Init /\ [][AnalysisNext]_vars

\* The presets panel: presets are picked and edited in any order, and the
\* debounce timer fires at any time after an edit.
PresetNext ==
  \/ ApplyPreset
  \/ EditField
  \/ DebounceFires

PresetSpec == Init /\ [][PresetNext]_vars

\* The player page: tracks are picked, prepared and played, they run out,
\* and the page answers the callbacks of the engine.
PlayerNext ==
  \/ Mount(SubSeq(StoredTracks, 1, 2))
  \/ SelectTrack
  \/ PrepareCompletes
  \/ CycleRepeat
  \/ UpdateProgress
  \/ BufferRunsOut
  \/ BufferTrackEnded
  \/ PlayResolves
  \/ StreamRunsOut
  \/ StreamTrackEnded
  \/ Tick

PlayerSpec == Init /\ [][PlayerNext]_vars

\* The controls of the player: tracks are deleted, shuffle and repeat are
\* set, and the next or the previous track is asked for with the buttons
\* and with the media session.
ControlsNext ==
  \/ Mount(StoredTracks)
  \/ DeleteTrack
  \/ ToggleShuffle
  \/ CycleRepeat
  \/ NextButton
  \/ PreviousButton
  \/ NextTrackAction
  \/ PreviousTrackAction

ControlsSpec == Init /\ [][ControlsNext]_vars

\* the track of the session the engine holds
EngineTrack ==
  IF playbackMode = "buffer" THEN currentBuffer
  ELSE IF playbackMode = "stream" THEN mediaElement.src
  ELSE "none"

\* the track after the current one: the next of the library, or the first
\* with repeat mode 'all'; "none" when there is none
Successor(p) ==
  LET i == findIndex(p.library, p.currentTrack) IN
  IF i < 0 THEN "none"
  ELSE IF i + 2 \in DOMAIN p.library THEN p.library[i + 2]
  ELSE IF p.repeatMode = "all" THEN p.library[1]
  ELSE "none"

\* ------------------------------------------------------------ properties
Range(f) == {f[x] : x \in DOMAIN f}

\* the buffer source nodes that are started and have not ended
Started == {id \in DOMAIN nodes : nodes[id].state = "playing"}

\* the stream element plays or is about to
ElementActive == mediaElement.state \in {"loading", "playing"}

\* the nodes other than the one held: sources of earlier sessions
Stale == DOMAIN nodes \ {source}

\* C1: at most one native playback resource plays at any time: started
\* buffer source nodes and the playing stream element together number at
\* most one; after playBuffer the one started node is the node held and plays
\* the buffer given, after playStream it is the stream element.
C1_SingleActiveSession ==
  /\ Cardinality(Started) + (IF ElementActive THEN 1 ELSE 0) <= 1
  /\ (trace.op = "playBuffer" /\ audioContext # "null" /\ ~trace.threw) =>
       /\ Started = {source}
       /\ nodes[source].buffer = currentBuffer
  /\ (trace.op = "playStream" /\ audioContext # "null") =>
       /\ Started = {}
       /\ mediaElement.state = "loading"

\* play(A) then play(B) with no teardown pending: A's node was stopped by
\* play(B) and B's node is the one that plays
C1_Witness ==
  /\ trace.op = "playBuffer" /\ ~trace.pending /\ ~trace.threw
  /\ currentBuffer = "B"
  /\ Started = {source}
  /\ \E id \in Stale : nodes[id].buffer = "A" /\ nodes[id].state = "stopped"

\* C2: onTrackEnd (with its onPlaybackChange(false)) is invoked only for the
\* 'ended' event of the source of the session held, and only when that
\* source ran out; never for a source that was stopped by a play, a seek or
\* a stop.
C2_TrackEndOnlyOnNaturalEnd ==
  "onTrackEnd" \in Range(trace.calls) =>
    trace.ended.kind = "natural" /\ trace.ended.current

\* C3: a play issued while the teardown of a stop is pending cancels it: no
\* timer is left that could stop the new source or reset the mode, every
\* source of an earlier session is stopped and disconnected, the stream
\* element of an earlier session is unloaded, and the master gain target is
\* the volume given to play, not the fade target 0.
C3_FadeThenPlayCancels ==
  (trace.op \in {"playBuffer", "playStream"} /\ trace.pending /\ audioContext # "null") =>
    /\ timers = {}
    /\ stopTimeout = NULL
    /\ \A id \in Stale : nodes[id].state # "playing" /\ ~nodes[id].connected
    /\ trace.op = "playBuffer" => mediaElement.state = "empty"
    /\ trace.op = "playStream" => source = NULL
    /\ mainGain = trace.p.volume
    /\ ~trace.threw => playbackMode = (IF trace.op = "playBuffer" THEN "buffer" ELSE "stream")

\* stop, then playBuffer(B) during the fade: B plays at volume 80 and the
\* node of A has been stopped
C3_Witness ==
  /\ trace.op = "playBuffer" /\ trace.pending /\ ~trace.threw
  /\ currentBuffer = "B" /\ Started = {source} /\ mainGain = 80
  /\ \E id \in Stale : nodes[id].buffer = "A" /\ nodes[id].state = "stopped"

\* C4: at most one teardown timer is pending, and it is the one stopTimeout
\* holds; a stop leaves exactly its own timer pending, due one fade interval
\* after the call; the teardown runs only for the timer of the last stop, not
\* before it is due, and leaves no timer behind.
C4_OneTeardownTimer ==
  /\ [](Cardinality(timers) <= 1 /\ \A t \in timers : t.id = stopTimeout)
  /\ [][(clock' = clock /\ trace'.op = "stop") =>
          timers' = {[id |-> stopTimeout', deadline |-> clock + trace'.fade]}]_vars
  /\ [][(clock' = clock /\ trace'.op = "teardown") =>
          /\ \E t \in timers : t.id = stopTimeout /\ clock >= t.deadline
          /\ timers' = {}
          /\ stopTimeout' = NULL
          /\ playbackMode' = "none"]_vars

\* a second stop issued while the teardown of the first is pending
C4_Witness ==
  /\ trace.op = "stop" /\ trace.pending
  /\ Cardinality(timers) = 1
  /\ clock > 0

Idle ==
  /\ source = NULL
  /\ Started = {}
  /\ mediaElement.state \in {"null", "empty"}
  /\ playbackMode = "none"
  /\ timers = {}
  /\ stopTimeout = NULL
  /\ ~isPlayingInternal

\* a play (or a seek that restarts the buffer) cancelled the pending teardown
Cancelled ==
  /\ trace.op \in {"playBuffer", "playStream", "seekTo"}
  /\ trace.pending
  /\ stopTimeout = NULL

\* C5: once a stop has set its timer, the engine reaches the idle state
\* unless a play cancels the teardown first.
C5_StopReachesIdle == (stopTimeout # NULL) ~> (Idle \/ Cancelled)

\* the teardown of a buffer session has run: the engine is idle and the
\* node it stopped still owes its 'ended' event
C5_Witness ==
  /\ Idle /\ trace.op = "teardown" /\ audioContext # "null"
  /\ \E id \in DOMAIN nodes : nodes[id].state = "stopped"

Clamp(db) == IF db > GainLimit THEN GainLimit ELSE IF db < -GainLimit THEN -GainLimit ELSE db

\* C6: after setEqGain(i, db) on a band of the initialized graph, the gain
\* target of band i is clamp(db, -12, 12).
C6_SetEqGainClamps ==
  (trace.op = "setEqGain" /\ audioContext # "null" /\ trace.i \in DOMAIN filters) =>
    filters[trace.i] = Clamp(trace.db)

\* C7: the gain target of every band filter lies in [-12, 12].
C7_GainsInRange ==
  \A i \in DOMAIN filters : -GainLimit <= filters[i] /\ filters[i] <= GainLimit

Finite(prof) == \A i \in DOMAIN prof : isFinite(prof[i])

RECURSIVE SumDelta(_, _, _)
SumDelta(sp, tp, n) ==
  IF n = 0 THEN 0 ELSE SumDelta(sp, tp, n - 1) + (DbOf(tp[n]) - DbOf(sp[n]))

ClampTo(x, lim) == IF x > lim THEN lim ELSE IF x < -lim THEN -lim ELSE x

\* C8: for finite profiles s and t of equal length N, entry i of the result
\* is clamp((t[i] - s[i]) - mean(t - s), -12, 12): N times the entry equals
\* N*(t[i] - s[i]) - sum(t - s) clamped to +/- 12*N; for s = [-10,-10,-10]
\* and t = [-10,-10,2] the result is [-4,-4,8]; and computing a match changes
\* nothing of the engine.
C8_MatchFormula ==
  /\ [](LET N == Len(match.s) IN
        (match.done /\ Len(match.t) = N /\ Finite(match.s) /\ Finite(match.t)) =>
          /\ Len(match.result) = N
          /\ \A i \in 1 .. N :
               /\ isFinite(match.result[i])
               /\ N * match.result[i].v =
                    Scale * ClampTo(N * (DbOf(match.t[i]) - DbOf(match.s[i]))
                                      - SumDelta(match.s, match.t, N),
                                    GainLimit * N)
          /\ (match.s = <<Db(-10), Db(-10), Db(-10)>> /\ match.t = <<Db(-10), Db(-10), Db(2)>>)
               => match.result = <<Db(-4), Db(-4), Db(8)>>)
  /\ [][match' # match => UNCHANGED <<engineVars, clock, trace>>]_vars

\* the scenario of the spec, computed
C8_Witness ==
  /\ match.done
  /\ match.s = <<Db(-10), Db(-10), Db(-10)>>
  /\ match.t = <<Db(-10), Db(-10), Db(2)>>
  /\ match.result = <<Db(-4), Db(-4), Db(8)>>

C10_MatchBounded ==
  match.done =>
    \A i \in DOMAIN match.result :
      /\ isFinite(match.result[i])
      /\ -GainLimit * Scale <= match.result[i].v
      /\ match.result[i].v <= GainLimit * Scale

\* the delta t[i] - s[i] in whole dB, 0 for a band whose delta is not finite
DeltaOrZero(sp, tp, i) ==
  IF isFinite(Sub(tp[i], sp[i])) THEN DbOf(tp[i]) - DbOf(sp[i]) ELSE 0

RECURSIVE SumDeltaOrZero(_, _, _)
SumDeltaOrZero(sp, tp, n) ==
  IF n = 0 THEN 0 ELSE SumDeltaOrZero(sp, tp, n - 1) + DeltaOrZero(sp, tp, n)

\* C11: for profiles of equal length N, a band whose delta is NaN or infinite
\* counts as delta 0 in its own value and in the mean: every entry of the
\* result is finite and N times entry i equals N*d[i] - sum(d) clamped to
\* +/- 12*N, where d is the delta with 0 in place of a non-finite value.
C11_NonFiniteAsZero ==
  LET N == Len(match.s) IN
  (match.done /\ Len(match.t) = N) =>
    \A i \in 1 .. N :
      /\ i \in DOMAIN match.result
      /\ isFinite(match.result[i])
      /\ N * match.result[i].v =
           Scale * ClampTo(N * DeltaOrZero(match.s, match.t, i)
                             - SumDeltaOrZero(match.s, match.t, N),
                           GainLimit * N)

\* C12: a seek in buffer mode (at a time the source node accepts) leaves a
\* session that plays the same buffer from the time given, and the targets
\* of the master volume, of every band gain and of the reverb dry and wet
\* levels are the values given to the seek.
C12_SeekKeepsParameters ==
  [][(clock' = clock /\ trace'.op = "seekTo" /\ playbackMode = "buffer" /\ ~trace'.threw) =>
       /\ playbackMode' = "buffer"
       /\ isPlayingInternal'
       /\ currentBuffer' = currentBuffer
       /\ source' # NULL
       /\ nodes'[source'].state = "playing"
       /\ nodes'[source'].buffer = currentBuffer
       /\ nodes'[source'].offset = offsetTime'
       /\ mainGain' = trace'.p.volume
       /\ \A i \in DOMAIN filters' : filters'[i] = trace'.p.eq[i]
       /\ reverbDry' = trace'.p.rd
       /\ reverbWet' = trace'.p.rw]_vars

\* a buffer session was sought to MaxOffset with the second preset
C12_Witness ==
  /\ trace.op = "seekTo" /\ ~trace.threw /\ playbackMode = "buffer"
  /\ trace.p.volume = 80 /\ mainGain = 80 /\ reverbDry = 70 /\ reverbWet = 50
  /\ filters[NumBands] = 3
  /\ source # NULL /\ nodes[source].state = "playing" /\ nodes[source].offset = MaxOffset

\* C13: a seek dispatches on the mode.  In stream mode only the position of
\* the stream element changes: the element is not unloaded or loaded again
\* and the buffer side is untouched.  In buffer mode (at a time the source
\* node accepts) the source that ran is stopped and disconnected and a new
\* source of the same buffer is started at the time given: exactly one
\* source plays afterwards.
C13_SeekDispatchesOnMode ==
  [][(clock' = clock /\ trace'.op = "seekTo") =>
       /\ (playbackMode = "stream" /\ mediaElement.state # "null") =>
            /\ mediaElement' = [mediaElement EXCEPT
                                  !.currentTime = IF offsetTime' < 0 THEN 0 ELSE offsetTime']
            /\ UNCHANGED <<source, nodes, playbackMode, isPlayingInternal,
                           currentBuffer, timers, stopTimeout>>
       /\ (playbackMode = "buffer" /\ ~trace'.threw) =>
            /\ playbackMode' = "buffer"
            /\ currentBuffer' = currentBuffer
            /\ source' # NULL
            /\ Started' = {source'}
            /\ nodes'[source'].buffer = currentBuffer
            /\ nodes'[source'].offset = offsetTime'
            /\ \A id \in Stale' : nodes'[id].state # "playing" /\ ~nodes'[id].connected
            /\ (source # NULL /\ nodes[source].state = "playing") =>
                 \E id \in Stale' : /\ nodes'[id].state = "stopped"
                                     /\ nodes'[id].endedQueued
                                     /\ nodes'[id].buffer = currentBuffer
            /\ mediaElement' = mediaElement]_vars

\* a playing stream was sought to MaxOffset
C13_Witness ==
  /\ trace.op = "seekTo" /\ playbackMode = "stream"
  /\ mediaElement.state = "playing" /\ mediaElement.src = "U"
  /\ mediaElement.currentTime = MaxOffset /\ offsetTime = MaxOffset

\* C14: a play initializes the engine when needed: after playBuffer or
\* playStream (with a start time the source accepts) the graph exists and
\* the source given is the session that plays.
C14_PlayInitializesLazily ==
  (trace.op \in {"playBuffer", "playStream"} /\ ~trace.threw) =>
    /\ audioContext # "null"
    /\ isPlayingInternal
    /\ playbackMode = (IF trace.op = "playBuffer" THEN "buffer" ELSE "stream")

Mutators == {"setEqGain", "setReverbDry", "setReverbWet", "setVolume",
             "setEchoDelay", "setEchoFeedback", "setEchoWet", "setEchoDry"}

\* C15: no parameter mutator throws; called before initContext has built the
\* graph, a mutator changes nothing of the engine; and setEqGain with an
\* index outside the bands of the graph changes nothing either.
C15_MutatorsNoOpBeforeInit ==
  [][(clock' = clock /\ trace'.op \in Mutators) =>
       /\ ~trace'.threw
       /\ audioContext = "null" => UNCHANGED engineVars
       /\ (trace'.op = "setEqGain" /\ trace'.i \notin DOMAIN filters) =>
            UNCHANGED engineVars]_vars

\* setVolume was called on the engine before initContext
C15_Witness ==
  /\ trace.op = "setVolume" /\ trace.db \in LevelInputs
  /\ audioContext = "null" /\ mainGain = NULL /\ filters = <<>>

\* C16: the first call of initContext builds the graph; every later call,
\* also one made while an earlier call still awaits resume, leaves the
\* context, the filters, the levels, the echo section and the stream element
\* as they are, and awaits resume only when the context is suspended.
C16_InitContextIdempotent ==
  [][(clock' = clock /\ trace'.op = "initContext") =>
       /\ audioContext = "null" =>
            /\ audioContext' # "null"
            /\ filters' = [i \in 1 .. NumBands |-> 0]
            /\ mediaElement' = EmptyElement
       /\ audioContext # "null" =>
            /\ UNCHANGED <<audioContext, source, nodes, filters, mainGain, reverbDry,
                           reverbWet, echo, mediaElement, currentBuffer, startTime,
                           offsetTime, isPlayingInternal, stopTimeout, playbackMode,
                           timers>>
            /\ resuming' = IF audioContext = "suspended" THEN resuming + 1 ELSE resuming]_vars

\* a second call of initContext while the first still awaits resume, after
\* a band gain was set: the gain is kept
C16_Witness ==
  /\ trace.op = "initContext" /\ audioContext = "suspended"
  /\ resuming = 2 /\ filters[1] = 5

\* C17: in buffer mode the time reported lies in the buffer:
\* 0 <= getCurrentTime() <= getDuration().
C17_CurrentTimeWithinDuration ==
  playbackMode = "buffer" =>
    /\ 0 <= getCurrentTime(Eng, clock)
    /\ getCurrentTime(Eng, clock) <= getDuration(Eng)

\* C18: stop records the position reached: the time reported just after
\* stop() on a playing buffer session is the time reported just before it.
C18_StopKeepsPosition ==
  [][(clock' = clock /\ trace'.op = "stop" /\ playbackMode = "buffer"
        /\ isPlayingInternal /\ Started = {source}) =>
       getCurrentTime(Eng, clock)' = getCurrentTime(Eng, clock)]_vars

\* C19: the session holds a buffer or a stream, never both, as the mode
\* says: in stream mode no buffer and no source node is held; in buffer mode
\* a buffer is held and the stream element is paused with nothing loaded;
\* and getIsPlaying() holds only in buffer or stream mode.
C19_BufferXorStream ==
  /\ playbackMode = "stream" => currentBuffer = "none" /\ source = NULL
  /\ playbackMode = "buffer" => currentBuffer # "none" /\ mediaElement.state = "empty"
  /\ getIsPlaying(Eng) => playbackMode \in {"buffer", "stream"}

\* C20: a stream whose play request was rejected, or that failed while it
\* played, does not count as playing.
C20_StreamFailureSurfaced ==
  mediaElement.state = "failed" => ~getIsPlaying(Eng)

\* C21: a play (with a start time the source accepts) issued after a failure
\* -- a load that could not be decoded, a rejected stream play or a stream
\* error -- succeeds: the source given is the one session that plays, and
\* nothing of the failed session is left attached: the failed stream is
\* unloaded, earlier source nodes are disconnected, no timer is pending.
C21_PlayRecoversFromFailure ==
  (trace.op \in {"playBuffer", "playStream"} /\ trace.failed /\ ~trace.threw) =>
    /\ audioContext # "null"
    /\ isPlayingInternal
    /\ Cardinality(Started) + (IF ElementActive THEN 1 ELSE 0) = 1
    /\ trace.op = "playBuffer" =>
         /\ playbackMode = "buffer"
         /\ Started = {source}
         /\ mediaElement.state = "empty"
    /\ trace.op = "playStream" =>
         /\ playbackMode = "stream"
         /\ source = NULL
         /\ mediaElement.state = "loading"
    /\ \A id \in Stale : ~nodes[id].connected
    /\ timers = {}

\* a buffer was played after the stream before it had failed
C21_Witness ==
  /\ trace.op = "playBuffer" /\ trace.failed /\ ~trace.threw
  /\ playbackMode = "buffer" /\ Started = {source}
  /\ mediaElement.state = "empty" /\ currentBuffer = "B"

\* C22: a play or seek with a time outside [0, duration] raises no error,
\* the position of the session is the time clamped into [0, duration], and
\* the running flag, the mode and the source held agree.
C22_TimeClamped ==
  (trace.op \in {"playBuffer", "seekTo"} /\ audioContext # "null") =>
    /\ ~trace.threw
    /\ playbackMode = "buffer" =>
         /\ 0 <= offsetTime /\ offsetTime <= getDuration(Eng)
         /\ source # NULL /\ isPlayingInternal
    /\ source # NULL => playbackMode = "buffer"

\* C26: at the moment playBuffer or playStream starts the new source, the
\* session before is already terminated (no source of an earlier session
\* plays, no fade is awaited) and the graph is set to the parameters given:
\* master volume, every band gain, reverb dry and wet.
C26_TerminateApplyStart ==
  (trace.op \in {"playBuffer", "playStream"} /\ audioContext # "null") =>
    /\ trace.atStart.started
    /\ trace.atStart.others = 0
    /\ trace.atStart.mainGain = trace.p.volume
    /\ trace.atStart.filters = [i \in 1 .. NumBands |-> trace.p.eq[i]]
    /\ trace.atStart.reverbDry = trace.p.rd
    /\ trace.atStart.reverbWet = trace.p.rw
    /\ timers = {}

\* a stream was started with the second preset while, until this call, a buffer
\* played: its node is stopped and still owes its 'ended' event
C26_Witness ==
  /\ trace.op = "playStream" /\ trace.atStart.started
  /\ trace.atStart.mainGain = 80 /\ trace.atStart.reverbWet = 50
  /\ mediaElement.state = "loading"
  /\ \E id \in DOMAIN nodes : nodes[id].state = "stopped" /\ nodes[id].endedQueued

C30_OnlyHandlersReplaced ==
  /\ [](\A k \in DOMAIN trace.delivered :
          trace.delivered[k].to = callbacks[trace.delivered[k].fn])
  /\ [][(clock' = clock /\ trace'.op = "setAudioEngineCallbacks") =>
          /\ UNCHANGED <<audioContext, mediaSession, graphBuilds, resuming, source,
                         nodes, filters, mainGain, reverbDry, reverbWet, echo,
                         mediaElement, currentBuffer, startTime, offsetTime,
                         isPlayingInternal, stopTimeout, playbackMode, timers>>
          /\ \A fn \in DOMAIN callbacks :
               callbacks'[fn] = IF trace'.cb[fn] # NULL THEN trace'.cb[fn]
                                ELSE callbacks[fn]
          /\ trace'.delivered = <<>>]_vars

\* onTrackEnd alone was registered again while a buffer session fades out:
\* the fade is still pending and the other handlers are the first ones
C30_Witness ==
  /\ trace.op = "setAudioEngineCallbacks"
  /\ trace.cb = [NoCallbacks EXCEPT !.onTrackEnd = MaxHandlers]
  /\ callbacks = [onPlaybackChange |-> 1, onSeekTo |-> 1, onTrackEnd |-> MaxHandlers]
  /\ stopTimeout # NULL /\ timers # {}
  /\ playbackMode = "buffer" /\ source # NULL

\* C29: every call of updateMediaMetadata (the one made directly, the one of
\* a playBuffer that found the graph and started its source, and the one
\* made when the stream element starts to play) sets the metadata and leaves a handler registered
\* for each of play, pause, seekto, seekbackward and seekforward, also when
\* the host had dropped the handlers before.  An event of the control
\* surface is relayed once, to the callback registered at that time for it
\* (onPlaybackChange for play and pause, onSeekTo for the seeks), and to
\* nobody when there is none.
C29_HandlersReRegistered ==
  /\ [](trace.op = "mediaAction" =>
          LET fn == IF trace.ended.kind \in {"play", "pause"}
                    THEN "onPlaybackChange" ELSE "onSeekTo"
          IN  IF callbacks[fn] = NULL
              THEN trace.delivered = <<>>
              ELSE /\ Len(trace.delivered) = 1
                   /\ trace.delivered[1].fn = fn
                   /\ trace.delivered[1].to = callbacks[fn])
  /\ [][(/\ clock' = clock
          /\ \/ trace'.op = "updateMediaMetadata"
             \/ trace'.op = "playBuffer" /\ audioContext # "null" /\ ~trace'.threw
             \/ mediaElement.state = "loading" /\ mediaElement'.state = "playing") =>
          /\ mediaSession'.metadata = "set"
          /\ mediaSession'.handlers = MediaActions]_vars

\* a seekto event was relayed to the second onSeekTo handler registered
C29_Witness ==
  /\ trace.op = "mediaAction" /\ trace.ended.kind = "seekto"
  /\ mediaSession.handlers = MediaActions
  /\ callbacks.onSeekTo = MaxHandlers
  /\ Len(trace.delivered) = 1 /\ trace.delivered[1].to = MaxHandlers
  /\ trace.delivered[1].arg = MaxOffset

\* C28: audio data that fail to decode are reported to the caller of the
\* loader as an error: a call that resolves returns a decoding of the data it
\* was given, a call on data of which nothing decodes rejects, and a rejected
\* upload is reported to the user and adds no track.  The synthetic tone
\* stands in only for the fallback asset /audio/base.wav.
C28_DecodeFailureSurfaced ==
  /\ load.outcome = "resolved" =>
       \/ load.buffer = "full" /\ load.input.full
       \/ load.buffer = "head" /\ load.input.head
  /\ (load.outcome # "none" /\ ~load.input.full /\ ~load.input.head) =>
       load.outcome = "rejected"
  /\ (load.caller = "handleFileUpload" /\ load.outcome = "rejected") => load.alerted
  /\ \A k \in DOMAIN library :
       /\ library[k].buffer = "sample" => library[k].src.name = FallbackAsset
       /\ library[k].src.kind = "blob" =>
            \/ library[k].buffer = "full" /\ library[k].src.full
            \/ library[k].buffer = "head" /\ library[k].src.head

\* a file that does not decode was uploaded after the default track was
\* replaced by the tone: the upload was rejected and reported, and the tone
\* is the only track
C28_Witness ==
  /\ load.caller = "handleFileUpload" /\ load.outcome = "rejected" /\ load.alerted
  /\ ~load.input.full
  /\ Len(library) = 1 /\ library[1].buffer = "sample"
  /\ library[1].src.name = FallbackAsset

\* C23: between the processing of two consecutive offsets getSpectrum yields
\* to the event loop, on every device class: no run of the call from one
\* suspension point (or from its start) to the next processes more than one
\* offset.
C23_YieldsPerOffset == analysis.call.burst <= 1

\* what is left to do of a call of getSpectrum: the offsets not yet
\* processed, counted twice, and the frame awaited before the next one
Remaining_Work(c, isMobile) ==
  2 * (numSamples(isMobile) - c.i) + (IF c.awaiting = "frame" THEN 1 ELSE 0)

\* C25: for every buffer length (empty, shorter than the number of offsets,
\* shorter than one window, longer than the part analyzed) getSpectrum comes
\* to its end without an error: it never passes the last offset, every time
\* a suspended call is resumed less work is left, so that it returns after
\* at most two resumptions for each offset; when it returns it has processed
\* every offset; its sums are finite all along, and the profile it returns
\* has one finite value for each band (no division by a zero count).
C25_SpectrumTotal ==
  /\ [](analysis.call.i <= numSamples(analysis.isMobile))
  /\ [][(analysis.call.awaiting \in {"frame", "timeout"} /\ analysis' # analysis) =>
          /\ analysis'.call.buffer = analysis.call.buffer
          /\ Remaining_Work(analysis'.call, analysis.isMobile)
               < Remaining_Work(analysis.call, analysis.isMobile)]_vars
  /\ [](\A f \in DOMAIN analysis.call.spectrum : isFinite(analysis.call.spectrum[f]))
  /\ [](analysis.call.awaiting = "returned" =>
          /\ analysis.call.i = numSamples(analysis.isMobile)
          /\ DOMAIN analysis.call.result = 1 .. NumBands
          /\ \A f \in 1 .. NumBands : isFinite(analysis.call.result[f]))

\* on a mobile device the profile of a buffer of 10 frames, fewer than the
\* 15 offsets and far less than a window, was returned: -60 dB in each band
C25_Witness ==
  /\ analysis.isMobile /\ analysis.call.awaiting = "returned"
  /\ analysis.call.buffer.length = 10 /\ analysis.call.buffer.level > 0
  /\ analysis.call.i = 15
  /\ analysis.sSpec = analysis.call.result
  /\ \A f \in 1 .. NumBands : isFinite(analysis.sSpec[f]) /\ DbOf(analysis.sSpec[f]) < 0

\* C24: in a match run the two estimations are sequential: at most one is in
\* progress at any time; the target estimation is in progress only when the
\* source profile exists and the cooldown timer has fired; during the
\* cooldown no estimation runs; and the gains exist only when both profiles
\* exist, and are calculateMatchedGains of the two.
C24_EstimationsSequential ==
  /\ Cardinality(analysis.active) <= 1
  /\ "target" \in analysis.active =>
       /\ analysis.sSpec # <<>>
       /\ analysis.timer = "fired"
  /\ "source" \in analysis.active => analysis.timer = "none" /\ analysis.sSpec = <<>>
  /\ analysis.pc = "cooldown" =>
       /\ analysis.active = {}
       /\ analysis.sSpec # <<>> /\ analysis.tSpec = <<>>
  /\ analysis.tSpec # <<>> => analysis.sSpec # <<>> /\ analysis.timer = "fired"
  /\ analysis.gains # <<>> =>
       /\ analysis.sSpec # <<>> /\ analysis.tSpec # <<>>
       /\ analysis.gains = calculateMatchedGains(analysis.sSpec, analysis.tSpec)

\* a run on a mobile device has finished: a short source and a long target
\* were analyzed one after the other, the cooldown between them, and the
\* gains were computed
C24_Witness ==
  /\ analysis.pc = "done" /\ analysis.isMobile /\ analysis.timer = "fired"
  /\ analysis.sBuffer.length = 3000 /\ analysis.tBuffer.length = 2000000
  /\ analysis.sBuffer.level = 0 /\ analysis.tBuffer.level > 0
  /\ analysis.active = {} /\ Len(analysis.gains) = NumBands

\* C31: a seek does not change whether the engine plays: when getIsPlaying()
\* is false before seekTo (after stop, in or after the fade, or after the
\* natural end of a track), it is false after it and no source plays.
C31_SeekKeepsStopped ==
  [][(clock' = clock /\ trace'.op = "seekTo" /\ ~getIsPlaying(Eng)) =>
       /\ ~isPlayingInternal'
       /\ \A id \in DOMAIN nodes' : nodes'[id].state # "playing"]_vars

\* C32: getIsPlaying() agrees with the session: while the source held plays
\* (or the stream element loads or plays) and no stop is pending,
\* getIsPlaying() is true, also when the 'ended' event of the source of an
\* earlier session is delivered in the meantime.
C32_IsPlayingAgrees ==
  (/\ stopTimeout = NULL
   /\ \/ playbackMode = "buffer" /\ source # NULL /\ nodes[source].state = "playing"
      \/ playbackMode = "stream" /\ ElementActive) =>
    getIsPlaying(Eng)

\* C37 as stated: for every buffer, every window the estimator has sampled
\* starts before min(length, 30 * sampleRate), and no sample is read at an
\* index at or past the length.
C37_ReadsInsideBuffer ==
  analysis.call.i > 0 =>
    /\ analysis.call.maxStart < analyzeLimit(analysis.call.buffer)
    /\ analysis.call.maxRead < analysis.call.buffer.length

\* C37, amended: no sample is read at an index at or past the length, and
\* every window sampled of a buffer that is not empty starts at an index of
\* the buffer within its first 30 seconds; of an empty buffer every window
\* starts at 0 and reads nothing.
C37_ReadsInsideNonEmptyBuffer ==
  analysis.call.i > 0 =>
    /\ analysis.call.maxRead < analysis.call.buffer.length
    /\ 0 <= analysis.call.maxStart
    /\ IF analysis.call.buffer.length > 0
       THEN analysis.call.maxStart < analyzeLimit(analysis.call.buffer)
       ELSE analysis.call.maxStart = 0 /\ analysis.call.maxRead = -1

\* all 40 offsets of a buffer longer than 30 seconds were processed: the
\* last window starts at 39 * 33075 and the reads end below 30 * 44100
C37_Witness ==
  /\ ~analysis.isMobile /\ analysis.call.awaiting = "returned"
  /\ analysis.call.buffer.length = 2000000
  /\ analysis.call.maxStart = 39 * 33075
  /\ analysis.call.maxRead = 39 * 33075 + 4080
  /\ analysis.call.maxRead >= 30 * 44100 - 33075

\* C38: the debounced write stores every edit in the preset that was active
\* when the edit was made: a field of a custom preset in the database holds
\* nothing but a value given to it while that preset was active, once
\* no write is pending every such value is in the database, and no built-in
\* preset is written (the database has rows of custom presets only and the
\* timer is never set for a built-in preset).
C38_EditsReachTheirPreset ==
  /\ presetStore.debounceTimer \notin DEFAULT_IDS
  /\ DOMAIN presetStore.db = CustomIds
  /\ \A p \in CustomIds, f \in Fields :
       /\ presetStore.db[p][f] # NULL => presetStore.db[p][f] \in presetStore.given[p][f]
       /\ presetStore.debounceTimer = "none" =>
            presetStore.db[p][f] = presetStore.edited[p][f]

\* C36: whenever playNextTrack or playPreviousTrack selects a track, its
\* index is one of 0 .. library.length - 1, whatever shuffle and the repeat
\* mode are and whether or not the current track is in the library;
\* playNextTrack with shuffle on and more than one track does not select the
\* track that is current; playNextTrack without shuffle and with a repeat
\* mode other than 'all' selects nothing when the current track is the last.
C36_PicksInRange ==
  LET k == player.pick IN
  /\ k.kind = "select" => 0 <= k.index /\ k.index <= k.length - 1
  /\ (k.fn = "next" /\ k.kind = "select" /\ k.isShuffle /\ k.length > 1) =>
       k.index # k.shown
  /\ (k.fn = "next" /\ ~k.isShuffle /\ k.repeatMode # "all"
        /\ k.shown = k.length - 1) =>
       k.kind # "select"

\* C36, for the current track as the call sees it: the three statements hold
\* of every call when the current track is the one of the render the
\* function was created in.
C36_PicksInRangeOfItsRender ==
  LET k == player.pick IN
  /\ k.kind = "select" => 0 <= k.index /\ k.index <= k.length - 1
  /\ (k.fn = "next" /\ k.kind = "select" /\ k.isShuffle /\ k.length > 1) =>
       k.index # k.currentIndex
  /\ (k.fn = "next" /\ ~k.isShuffle /\ k.repeatMode # "all"
        /\ k.currentIndex = k.length - 1) =>
       k.kind # "select"

\* C33: selection is last-wins: once no call of handleTrackSelect waits for
\* its source any more, the track shown as current is the track of the
\* latest call, and when that call was to play, the session of the engine
\* is of that track.
C33_LastSelectWins ==
  (player.selects = <<>> /\ player.last.track # "none") =>
    /\ player.currentTrack = player.last.track
    /\ player.last.shouldPlay => EngineTrack = player.last.track

\* C34: when the track that plays ends naturally and has a successor, the
\* successor of the track that was current is selected and is to be played
\* (no other selection being in progress, repeat mode not 'one').
C34_AutoAdvance ==
  [][(/\ clock' = clock /\ trace'.op = "ended"
      /\ trace'.ended.kind = "natural" /\ trace'.ended.current
      /\ getIsPlaying(Eng)
      /\ player.selects = <<>>
      /\ player.currentTrack = EngineTrack
      /\ player.repeatMode # "one"
      /\ Successor(player) # "none") =>
       /\ player'.currentTrack = Successor(player)
       /\ player'.selects = <<[track |-> Successor(player), shouldPlay |-> TRUE]>>]_vars

\* C35: with repeat mode 'one', when the current track ends naturally the
\* same track is played again from position 0 and the engine reports
\* playing, in buffer mode and in stream mode.
C35_RepeatOneRestarts ==
  [][(/\ clock' = clock /\ trace'.op = "ended"
      /\ trace'.ended.kind = "natural" /\ trace'.ended.current
      /\ getIsPlaying(Eng)
      /\ player.selects = <<>>
      /\ player.currentTrack = EngineTrack
      /\ player.repeatMode = "one") =>
       /\ isPlayingInternal'
       /\ player'.currentTrack = player.currentTrack
       /\ player'.selects = <<>>
       /\ playbackMode' = playbackMode
       /\ offsetTime' = 0
       /\ playbackMode = "buffer" =>
            /\ currentBuffer' = currentBuffer
            /\ source' # NULL
            /\ nodes'[source'].state = "playing" /\ nodes'[source'].offset = 0
       /\ playbackMode = "stream" =>
            /\ mediaElement'.src = mediaElement.src
            /\ mediaElement'.state = "playing" /\ mediaElement'.currentTime = 0]_vars

====
